---- MODULE Spec2Model ----
(***************************************************************************)
(* JardAIn: the three-tier plant resolver (services/plant_service.py) and  *)
(* the garden plan assembler (services/garden_plan_service.py).            *)
(*                                                                         *)
(* Coroutines are modelled at the granularity of asyncio: one action is    *)
(* the completion of one await together with the synchronous code that     *)
(* follows it up to the next await.  Plant names are sequences of          *)
(* characters so that lower(), strip() and substring matching are          *)
(* computed, not assumed.                                                  *)
(***************************************************************************)
EXTENDS Integers, Sequences, FiniteSets, TLC

VARIABLES
    cache,          \* PlantCache._cache        : key -> PlantInfo
    timestamps,     \* PlantCache._timestamps   : key -> time of store
    now,            \* datetime.now(), in hours
    db,             \* rows of the plants table (PlantModel)
    dbManager,      \* models.database.database_manager is not None
    dbAvailable,    \* PlantService._database_available : "None" | "True" | "False"
    dbChecked,      \* PlantService._database_check_attempted
    dbFaults,       \* whether database operations may fail in this run
    llm,            \* settings.llm_provider, and whether the provider answers
    ext,            \* the call of a JSON extractor in progress
    turn,           \* the turn of the instructions loop in progress
    procs,          \* top-level calls of the resolver in progress
    prev,           \* summary of the last completed top-level call
    ncalls,         \* number of top-level calls started
    plan            \* the create_garden_plan call in progress

vars == <<cache, timestamps, now, db, dbManager, dbAvailable, dbChecked, dbFaults,
          llm, ext, turn, procs, prev, ncalls, plan>>

cacheVars == <<cache, timestamps>>
latchVars == <<dbAvailable, dbChecked>>
envVars == <<now, dbManager, dbFaults, llm, ext, turn>>
histVars == <<prev, ncalls>>

----------------------------------------------------------------------------
(* Bounds of the model *)

MaxTime == 2
MaxCalls == 2

----------------------------------------------------------------------------
(* Strings *)

LowerChar(c) ==
    CASE c = "K" -> "k"
      [] c = "C" -> "c"
      [] c = "L" -> "l"
      [] c = "X" -> "x"
      [] OTHER -> c

RECURSIVE Lower(_)
Lower(s) == IF s = <<>> THEN <<>> ELSE <<LowerChar(Head(s))>> \o Lower(Tail(s))

RECURSIVE LStrip(_)
LStrip(s) == IF s # <<>> /\ Head(s) = " " THEN LStrip(Tail(s)) ELSE s

RECURSIVE RStrip(_)
RStrip(s) ==
    IF s # <<>> /\ s[Len(s)] = " " THEN RStrip(SubSeq(s, 1, Len(s) - 1)) ELSE s

Strip(s) == RStrip(LStrip(s))

\* plant_name.lower().strip()
Key(name) == Strip(Lower(name))

\* func.lower(PlantModel.name).contains(key)
Contains(s, sub) ==
    \E i \in 0..(Len(s) - Len(sub)) : SubSeq(s, i + 1, i + Len(sub)) = sub

----------------------------------------------------------------------------
(* Values *)

\* no extractor is running
NoExtraction ==
    [pc |-> "idle", fn |-> "none", response |-> <<>>, cleaned |-> <<>>,
     json_str |-> <<>>, repaired |-> FALSE, data |-> <<>>, outcome |-> "none"]

\* no turn of the instructions loop is in progress
NoTurn == [pc |-> "idle"]

NoInt == -1
None == [none |-> TRUE]

\* "K" and "CK" are seeded in the table (think "Kale" and "Chinese Kale");
\* "XL" (think "Purple Lettuce") is unknown and has to be generated
NameK == <<"K">>
NameKsp == <<" ", "k", " ">>
NameC == <<"C">>
NameCK == <<"C", "K">>
NameXL == <<"X", "L">>
NameL == <<"L">>

\* names a caller may ask for
RequestNames == {NameK, NameKsp, NameC, NameXL}

PlantInfo(name, days) == [name |-> name, days |-> days]

Row(name, days, usage, source) ==
    [name |-> name, days |-> days, usage |-> usage, source |-> source]

\* PlantService._model_to_plant_info
ModelToPlantInfo(row) == PlantInfo(row.name, row.days)

\* the static JSON table, keyed by plant.name.lower()
LoadStaticDatabase(plantsJson) ==
    [k \in {Lower(p.name) : p \in plantsJson} |->
        CHOOSE p \in plantsJson : Lower(p.name) = k]

StaticJson == {PlantInfo(NameK, 60), PlantInfo(NameCK, 60)}

static_plants == LoadStaticDatabase(StaticJson)

----------------------------------------------------------------------------
(* PlantCache *)

\* timedelta(hours=1)
CacheDuration == 1

Remove(f, k) == [x \in (DOMAIN f) \ {k} |-> f[x]]
Put(f, k, v) == [x \in (DOMAIN f) \cup {k} |-> IF x = k THEN v ELSE f[x]]

\* PlantCache.get as it would be with the expiry test written >= : an entry aged
\* exactly the TTL is dropped
CacheGetEager(c, ts, t, plant_name) ==
    LET key == Key(plant_name) IN
    IF key \notin DOMAIN c
    THEN [cache |-> c, timestamps |-> ts, ret |-> None]
    ELSE IF t - ts[key] >= CacheDuration
         THEN [cache |-> Remove(c, key), timestamps |-> Remove(ts, key), ret |-> None]
         ELSE [cache |-> c, timestamps |-> ts, ret |-> c[key]]

\* PlantCache.get as it would be without the expiry test: an entry is served
\* whatever its age
CacheGetNoExpiry(c, ts, t, plant_name) ==
    LET key == Key(plant_name) IN
    IF key \notin DOMAIN c
    THEN [cache |-> c, timestamps |-> ts, ret |-> None]
    ELSE [cache |-> c, timestamps |-> ts, ret |-> c[key]]

\* PlantCache.get as it would be if another coroutine could run between its two
\* del statements: the entry is gone, its timestamp is still there
CacheGetHalfExpired(c, ts, t, plant_name) ==
    LET key == Key(plant_name) IN
    IF key \notin DOMAIN c
    THEN [cache |-> c, timestamps |-> ts, ret |-> None]
    ELSE IF t - ts[key] > CacheDuration
         THEN [cache |-> Remove(c, key), timestamps |-> ts, ret |-> None]
         ELSE [cache |-> c, timestamps |-> ts, ret |-> c[key]]

\* PlantCache.get: the new maps and the value returned
CacheGet(c, ts, t, plant_name) ==
    LET key == Key(plant_name) IN
    IF key \notin DOMAIN c
    THEN [cache |-> c, timestamps |-> ts, ret |-> None]
    ELSE IF t - ts[key] > CacheDuration
         THEN [cache |-> Remove(c, key), timestamps |-> Remove(ts, key), ret |-> None]
         ELSE [cache |-> c, timestamps |-> ts, ret |-> c[key]]

\* PlantCache.store as it would be if it kept the record under its own name only
CacheStoreRecordKey(c, ts, t, plant_name, plant_info) ==
    LET actual_key == Key(plant_info.name)
    IN [cache |-> Put(c, actual_key, plant_info), timestamps |-> Put(ts, actual_key, t)]

\* PlantCache.store as it would be if it kept the record under the requested name
\* only
CacheStoreRequestedKey(c, ts, t, plant_name, plant_info) ==
    LET key == Key(plant_name)
    IN [cache |-> Put(c, key, plant_info), timestamps |-> Put(ts, key, t)]

\* PlantCache.store
CacheStore(c, ts, t, plant_name, plant_info) ==
    LET key == Key(plant_name)
        actual_key == Key(plant_info.name)
        c1 == Put(c, key, plant_info)
        ts1 == Put(ts, key, t)
    IN IF actual_key # key
       THEN [cache |-> Put(c1, actual_key, plant_info),
             timestamps |-> Put(ts1, actual_key, t)]
       ELSE [cache |-> c1, timestamps |-> ts1]

----------------------------------------------------------------------------
(* The plants table *)

\* rows whose lower(name) equals the key
ExactRows(rows, key) == {r \in rows : Lower(r.name) = key}

\* rows whose lower(name) contains the key
PartialRows(rows, key) == {r \in rows : Contains(Lower(r.name), key)}

\* PlantService._get_plant_from_database without a database error: the values
\* it can return.  scalar_one_or_none() raises on several rows (caught, None);
\* first() of the unordered partial match is any matching row.
GetPlantFromDatabase(rows, plant_name) ==
    LET key == Key(plant_name)
        exact == ExactRows(rows, key)
        partial == PartialRows(rows, key)
    IN IF Cardinality(exact) = 1 THEN {ModelToPlantInfo(r) : r \in exact}
       ELSE IF Cardinality(exact) > 1 THEN {None}
       ELSE IF partial # {} THEN {ModelToPlantInfo(r) : r \in partial}
       ELSE {None}

\* the INSERT of _store_plant_in_database is rejected by the table when a
\* NOT NULL column is missing or the unique name exists
InsertRejected(rows, plant_info) ==
    \/ plant_info.days = NoInt
    \/ \E r \in rows : r.name = plant_info.name

\* the row _store_plant_in_database adds
NewPlantModel(plant_info) == Row(plant_info.name, plant_info.days, 1, "llm")

\* UPDATE plants SET usage_count = usage WHERE name = name
UpdateUsage(rows, name, usage) ==
    {IF r.name = name THEN [r EXCEPT !.usage = usage] ELSE r : r \in rows}

----------------------------------------------------------------------------
(* The generative service, as seen by _generate_plant_info_via_llm *)

\* settings.llm_provider
Providers == {"ollama", "openai"}

\* a provider that answers every request, with text or with an error
Answering == [provider |-> "ollama", answers |-> TRUE]

\* llm_service.generate_plant_info, awaited: what it can return out of the
\* answers the provider could give.  A provider that never answers lets
\* _generate_with_openai return None when asyncio.wait_for times out;
\* _generate_with_ollama awaits asyncio.to_thread(ollama.generate, ...) with no
\* timeout and does not return
Generated(responses) ==
    IF llm.answers THEN responses
    ELSE IF llm.provider = "openai" THEN {response \in responses : response.kind = "none"}
    ELSE {}

\* what llm_service.generate_plant_info can hand back for a plant prompt:
\* nothing (error, timeout, empty text), text that is no JSON, the JSON null,
\* an object without the required plant_type, or a complete object, named as
\* asked or renamed by the model ("Purple Lettuce" answered as "Lettuce")
LLMPlantResponses(plant_name) ==
    {[kind |-> "none"], [kind |-> "garbage"], [kind |-> "null"]}
    \cup {[kind |-> "object", name |-> plant_name, has_type |-> TRUE, days |-> d] :
            d \in {NoInt, 90}}
    \cup {[kind |-> "object", name |-> plant_name, has_type |-> FALSE, days |-> 90],
          [kind |-> "object", name |-> NameL, has_type |-> TRUE, days |-> 90]}

\* _generate_plant_info_via_llm as it would be without the validation of PlantInfo
ParsePlantResponseUnvalidated(response) ==
    IF response.kind = "none" THEN None
    ELSE IF response.kind = "garbage" THEN None
    ELSE IF response.kind = "null" THEN None
    ELSE PlantInfo(response.name, response.days)

\* PlantService._generate_plant_info_via_llm after the response arrived
ParsePlantResponse(response) ==
    IF response.kind = "none" THEN None
    ELSE IF response.kind = "garbage" THEN None
    ELSE IF response.kind = "null" THEN None
    ELSE IF ~response.has_type THEN None
    ELSE PlantInfo(response.name, response.days)

----------------------------------------------------------------------------
(* PlantService.database_available *)

\* _check_database_availability
CheckDatabaseAvailability(avail, checked, mgr) ==
    IF checked THEN (avail = "True") ELSE mgr

\* the property as it would be without the latch: decided from the manager at every
\* access
DatabaseAvailableRechecked(avail, checked, mgr) ==
    [avail |-> IF mgr THEN "True" ELSE "False", checked |-> TRUE, ret |-> mgr]

\* the lazy property: latches on first access
DatabaseAvailable(avail, checked, mgr) ==
    IF avail = "None"
    THEN LET a == CheckDatabaseAvailability(avail, checked, mgr)
         IN [avail |-> IF a THEN "True" ELSE "False", checked |-> TRUE, ret |-> a]
    ELSE [avail |-> avail, checked |-> checked, ret |-> (avail = "True")]

----------------------------------------------------------------------------
(* Coroutines of get_plant_info *)

\* whether the database operation that completes raises SQLAlchemyError
DbErrors == IF dbFaults THEN BOOLEAN ELSE {FALSE}

NewTask(name) ==
    [name |-> name, pc |-> "start", ret |-> None, log |-> <<>>,
     hold |-> None, tgt |-> <<>>, upd |-> NoInt]

Finish(task, ret, events) ==
    [task EXCEPT !.pc = "done", !.ret = ret, !.log = task.log \o events]

Goto(task, pc, events) ==
    [task EXCEPT !.pc = pc, !.log = task.log \o events]

\* get_plant_info from the call to its first await: tier 1, the availability
\* check and the static table
GpiStart(c, ts, t, avail, checked, mgr, task) ==
    LET g == CacheGet(c, ts, t, task.name)
        missEvent == IF Key(task.name) \in DOMAIN c THEN "cache_expired" ELSE "cache_miss"
        a == DatabaseAvailable(avail, checked, mgr)
        plant_key == Key(task.name)
    IN IF g.ret # None
       THEN [cache |-> g.cache, timestamps |-> g.timestamps,
             avail |-> avail, checked |-> checked,
             task |-> Finish(task, g.ret, <<"cache_hit">>)]
       ELSE [cache |-> g.cache, timestamps |-> g.timestamps,
             avail |-> a.avail, checked |-> a.checked,
             task |-> IF a.ret
                      THEN Goto(task, "db_lookup", <<missEvent>>)
                      ELSE IF plant_key \in DOMAIN static_plants
                           THEN Finish(task, static_plants[plant_key],
                                       <<missEvent, "static_hit">>)
                           ELSE Goto(task, "llm", <<missEvent, "static_miss">>)]

----------------------------------------------------------------------------
(* Top-level calls: get_plant_info and get_multiple_plants *)

\* the callers of the service: one in the runs that follow a single caller, several
\* where requests are served concurrently
ProcIds == DOMAIN procs

NoSnapshot == [cache |-> <<>>, timestamps |-> <<>>, db |-> {}, now |-> 0, store |-> FALSE]

NoProc ==
    [op |-> "idle", names |-> <<>>, pc |-> "idle", plants |-> <<>>,
     remaining |-> <<>>, tasks |-> <<>>, rows |-> <<>>, log |-> <<>>,
     result |-> <<>>, cleared |-> FALSE, pre |-> NoSnapshot]

\* the cache, the table and the availability of the database as the call found them
Snapshot ==
    [cache |-> cache, timestamps |-> timestamps, db |-> db, now |-> now,
     store |-> DatabaseAvailable(dbAvailable, dbChecked, dbManager).ret]

\* a call is over when its coroutine has returned
Done(proc) ==
    \/ proc.op = "gpi" /\ proc.tasks[1].pc = "done"
    \/ proc.op = "gmp" /\ proc.pc = "done"

Busy(proc) == proc.op # "idle" /\ ~Done(proc)

Quiet == \A p \in ProcIds : ~Busy(procs[p])

\* everything a call logged, its coroutines included
Events(proc) ==
    {proc.log[j] : j \in 1..Len(proc.log)}
    \cup UNION {{proc.tasks[i].log[j] : j \in 1..Len(proc.tasks[i].log)} :
                    i \in 1..Len(proc.tasks)}

\* what the call returned, as a list
Returned(proc) ==
    IF proc.op = "gpi"
    THEN (IF proc.tasks[1].ret = None THEN <<>> ELSE <<proc.tasks[1].ret>>)
    ELSE proc.result

NoCall ==
    [op |-> "idle", names |-> <<>>, result |-> <<>>, events |-> {},
     t0 |-> 0, origin |-> NoInt, cleared |-> FALSE]

\* the time at which the record a get_plant_info call returned was read from the
\* table: by the call itself, or by the call before it when this one was served
\* from the cache under the same key in the meantime
Origin(proc, before) ==
    IF proc.op # "gpi" THEN NoInt
    ELSE IF Events(proc) \cap {"db_hit_exact", "db_hit_partial"} # {} THEN proc.pre.now
    ELSE IF /\ "cache_hit" \in Events(proc)
            /\ before.op = "gpi" /\ ~before.cleared
            /\ Key(before.names[1]) = Key(proc.names[1])
         THEN before.origin
    ELSE NoInt

Summary(proc, before) ==
    IF proc.op = "idle" THEN NoCall
    ELSE [op |-> proc.op, names |-> proc.names, result |-> Returned(proc),
          events |-> Events(proc), t0 |-> proc.pre.now,
          origin |-> Origin(proc, before),
          cleared |-> proc.cleared]

SetTask(p, i, task) == procs' = [procs EXCEPT ![p].tasks[i] = task]

\* a caller is free to issue its next call
MayCall(p) ==
    /\ ~Busy(procs[p])
    /\ ncalls < MaxCalls
    /\ prev' = Summary(procs[p], prev)
    /\ ncalls' = ncalls + 1

\* await plant_service.get_plant_info(plant_name), up to its first await
CallGetPlantInfo(p, plant_name) ==
    /\ plan.pc = "idle"
    /\ MayCall(p)
    /\ LET s == GpiStart(cache, timestamps, now, dbAvailable, dbChecked, dbManager,
                         NewTask(plant_name))
       IN /\ cache' = s.cache
          /\ timestamps' = s.timestamps
          /\ dbAvailable' = s.avail
          /\ dbChecked' = s.checked
          /\ procs' = [procs EXCEPT ![p] =
                [NoProc EXCEPT !.op = "gpi", !.names = <<plant_name>>,
                               !.tasks = <<s.task>>, !.pre = Snapshot]]
    /\ UNCHANGED <<db, envVars, plan>>

\* a coroutine get_plant_info created by asyncio.gather runs to its first await
TaskStart(p, i) ==
    /\ procs[p].op = "gmp" /\ procs[p].pc = "gather"
    /\ procs[p].tasks[i].pc = "start"
    /\ LET s == GpiStart(cache, timestamps, now, dbAvailable, dbChecked, dbManager,
                         procs[p].tasks[i])
       IN /\ cache' = s.cache
          /\ timestamps' = s.timestamps
          /\ dbAvailable' = s.avail
          /\ dbChecked' = s.checked
          /\ SetTask(p, i, s.task)
    /\ UNCHANGED <<db, envVars, histVars, plan>>

\* the lookup as it would be if an error of the database ended the resolution
TaskDbLookupErrorEnds(p, i) ==
    LET task == procs[p].tasks[i] IN
    /\ task.pc = "db_lookup"
    /\ \E err \in DbErrors :
       \E db_plant \in IF err THEN {None} ELSE GetPlantFromDatabase(db, task.name) :
          IF db_plant # None
          THEN LET st == CacheStore(cache, timestamps, now, task.name, db_plant)
                   kind == IF ExactRows(db, Key(task.name)) # {}
                           THEN "db_hit_exact" ELSE "db_hit_partial"
               IN /\ cache' = st.cache
                  /\ timestamps' = st.timestamps
                  /\ SetTask(p, i, [Goto(task, "incr_select", <<kind, "cache_store">>)
                                       EXCEPT !.hold = db_plant])
          ELSE /\ SetTask(p, i, IF err THEN Finish(task, None, <<"db_error">>)
                                 ELSE Goto(task, "llm", <<"db_miss">>))
               /\ UNCHANGED cacheVars
    /\ UNCHANGED <<db, latchVars, envVars, histVars, plan>>

\* await self._get_plant_from_database(plant_name) completes
TaskDbLookup(p, i) ==
    LET task == procs[p].tasks[i] IN
    /\ task.pc = "db_lookup"
    /\ \E err \in DbErrors :
       \E db_plant \in IF err THEN {None} ELSE GetPlantFromDatabase(db, task.name) :
          IF db_plant # None
          THEN LET st == CacheStore(cache, timestamps, now, task.name, db_plant)
                   kind == IF ExactRows(db, Key(task.name)) # {}
                           THEN "db_hit_exact" ELSE "db_hit_partial"
               IN /\ cache' = st.cache
                  /\ timestamps' = st.timestamps
                  /\ SetTask(p, i, [Goto(task, "incr_select", <<kind, "cache_store">>)
                                       EXCEPT !.hold = db_plant])
          ELSE /\ SetTask(p, i, Goto(task, "llm",
                                     <<IF err THEN "db_error" ELSE "db_miss">>))
               /\ UNCHANGED cacheVars
    /\ UNCHANGED <<db, latchVars, envVars, histVars, plan>>

\* _increment_usage_count: the SELECT completes
TaskIncrSelect(p, i) ==
    LET task == procs[p].tasks[i]
        found == ExactRows(db, Key(task.name))
    IN
    /\ task.pc = "incr_select"
    /\ \E err \in DbErrors :
          IF ~err /\ Cardinality(found) = 1
          THEN LET r == CHOOSE r \in found : TRUE
               IN SetTask(p, i, [Goto(task, "incr_commit", <<>>)
                                    EXCEPT !.tgt = r.name, !.upd = r.usage + 1])
          ELSE SetTask(p, i, Finish(task, task.hold,
                                    <<IF err \/ found # {} THEN "db_error" ELSE "incr_none">>))
    /\ UNCHANGED <<cacheVars, db, latchVars, envVars, histVars, plan>>

\* _increment_usage_count: the commit completes and get_plant_info returns
TaskIncrCommit(p, i) ==
    LET task == procs[p].tasks[i] IN
    /\ task.pc = "incr_commit"
    /\ \E err \in DbErrors :
          IF err
          THEN /\ SetTask(p, i, Finish(task, task.hold, <<"db_error">>))
               /\ UNCHANGED db
          ELSE /\ db' = UpdateUsage(db, task.tgt, task.upd)
               /\ SetTask(p, i, Finish(task, task.hold, <<"incr">>))
    /\ UNCHANGED <<cacheVars, latchVars, envVars, histVars, plan>>

\* what the generator answered, as the log of the call names it
LlmEvent(response) ==
    CASE response.kind = "none" -> "llm_none"
      [] response.kind = "garbage" -> "llm_garbage"
      [] response.kind = "null" -> "llm_null"
      [] ~response.has_type -> "llm_invalid"
      [] OTHER -> "llm_object"

\* the completion of the generation as it would be if a failure were remembered in the
\* cache under the requested name
TaskLlmRemembersFailure(p, i) ==
    LET task == procs[p].tasks[i] IN
    /\ task.pc = "llm"
    /\ \E response \in Generated(LLMPlantResponses(task.name)) :
       LET generated_plant == ParsePlantResponse(response)
           a == DatabaseAvailable(dbAvailable, dbChecked, dbManager)
       IN IF generated_plant = None
          THEN LET st == CacheStore(cache, timestamps, now, task.name,
                                    PlantInfo(task.name, NoInt))
               IN /\ SetTask(p, i, Finish(task, None, <<LlmEvent(response), "llm_fail">>))
                  /\ cache' = st.cache
                  /\ timestamps' = st.timestamps
                  /\ UNCHANGED latchVars
          ELSE IF a.ret
          THEN /\ SetTask(p, i, [Goto(task, "store_select",
                                         <<LlmEvent(response), "llm_ok">>)
                                    EXCEPT !.hold = generated_plant])
               /\ dbAvailable' = a.avail
               /\ dbChecked' = a.checked
               /\ UNCHANGED cacheVars
          ELSE LET st == CacheStore(cache, timestamps, now, task.name, generated_plant)
               IN /\ cache' = st.cache
                  /\ timestamps' = st.timestamps
                  /\ dbAvailable' = a.avail
                  /\ dbChecked' = a.checked
                  /\ SetTask(p, i, Finish(task, generated_plant,
                                          <<LlmEvent(response), "llm_ok",
                                            "cache_store">>))
    /\ UNCHANGED <<db, envVars, histVars, plan>>

\* await self._generate_plant_info_via_llm(plant_name) completes
TaskLlm(p, i) ==
    LET task == procs[p].tasks[i] IN
    /\ task.pc = "llm"
    /\ \E response \in Generated(LLMPlantResponses(task.name)) :
       LET generated_plant == ParsePlantResponse(response)
           a == DatabaseAvailable(dbAvailable, dbChecked, dbManager)
       IN IF generated_plant = None
          THEN /\ SetTask(p, i, Finish(task, None, <<LlmEvent(response), "llm_fail">>))
               /\ UNCHANGED <<cacheVars, latchVars>>
          ELSE IF a.ret
          THEN /\ SetTask(p, i, [Goto(task, "store_select",
                                         <<LlmEvent(response), "llm_ok">>)
                                    EXCEPT !.hold = generated_plant])
               /\ dbAvailable' = a.avail
               /\ dbChecked' = a.checked
               /\ UNCHANGED cacheVars
          ELSE LET st == CacheStore(cache, timestamps, now, task.name, generated_plant)
               IN /\ cache' = st.cache
                  /\ timestamps' = st.timestamps
                  /\ dbAvailable' = a.avail
                  /\ dbChecked' = a.checked
                  /\ SetTask(p, i, Finish(task, generated_plant,
                                          <<LlmEvent(response), "llm_ok",
                                            "cache_store">>))
    /\ UNCHANGED <<db, envVars, histVars, plan>>

\* the SELECT of _store_plant_in_database as it would be if an existing plant were
\* overwritten with the generated record
TaskStoreSelectUpsert(p, i) ==
    LET task == procs[p].tasks[i]
        existing == ExactRows(db, Key(task.hold.name))
    IN
    /\ task.pc = "store_select"
    /\ \E err \in DbErrors :
          IF ~err /\ existing = {}
          THEN /\ SetTask(p, i, Goto(task, "store_commit", <<>>))
               /\ UNCHANGED <<cacheVars, db>>
          ELSE LET st == CacheStore(cache, timestamps, now, task.name, task.hold)
                   ev == IF err \/ Cardinality(existing) > 1 THEN "db_error" ELSE "db_exists"
               IN /\ cache' = st.cache
                  /\ timestamps' = st.timestamps
                  /\ db' = IF ev = "db_exists"
                           THEN (db \ existing) \cup {NewPlantModel(task.hold)}
                           ELSE db
                  /\ SetTask(p, i, Finish(task, task.hold, <<ev, "cache_store">>))
    /\ UNCHANGED <<latchVars, envVars, histVars, plan>>

\* _store_plant_in_database: the SELECT for an existing plant completes
TaskStoreSelect(p, i) ==
    LET task == procs[p].tasks[i]
        existing == ExactRows(db, Key(task.hold.name))
    IN
    /\ task.pc = "store_select"
    /\ \E err \in DbErrors :
          IF ~err /\ existing = {}
          THEN /\ SetTask(p, i, Goto(task, "store_commit", <<>>))
               /\ UNCHANGED cacheVars
          ELSE LET st == CacheStore(cache, timestamps, now, task.name, task.hold)
                   ev == IF err \/ Cardinality(existing) > 1 THEN "db_error" ELSE "db_exists"
               IN /\ cache' = st.cache
                  /\ timestamps' = st.timestamps
                  /\ SetTask(p, i, Finish(task, task.hold, <<ev, "cache_store">>))
    /\ UNCHANGED <<db, latchVars, envVars, histVars, plan>>

\* _store_plant_in_database: the commit completes; the plant is cached and returned
TaskStoreCommit(p, i) ==
    LET task == procs[p].tasks[i]
        st == CacheStore(cache, timestamps, now, task.name, task.hold)
    IN
    /\ task.pc = "store_commit"
    /\ \E err \in DbErrors :
          IF err \/ InsertRejected(db, task.hold)
          THEN /\ SetTask(p, i, Finish(task, task.hold, <<"db_error", "cache_store">>))
               /\ UNCHANGED db
          ELSE /\ db' = db \cup {NewPlantModel(task.hold)}
               /\ SetTask(p, i, Finish(task, task.hold, <<"db_insert", "cache_store">>))
    /\ cache' = st.cache
    /\ timestamps' = st.timestamps
    /\ UNCHANGED <<latchVars, envVars, histVars, plan>>


----------------------------------------------------------------------------
(* get_multiple_plants *)

\* Tier 1: cache.get for every name, in order
RECURSIVE Tier1(_, _, _, _)
Tier1(c, ts, t, names) ==
    IF names = <<>>
    THEN [cache |-> c, timestamps |-> ts, plants |-> <<>>, remaining |-> <<>>]
    ELSE LET g == CacheGet(c, ts, t, Head(names))
             rest == Tier1(g.cache, g.timestamps, t, Tail(names))
         IN IF g.ret # None
            THEN [rest EXCEPT !.plants = <<g.ret>> \o rest.plants]
            ELSE [rest EXCEPT !.remaining = <<Head(names)>> \o rest.remaining]

\* the JSON fallback as it would be if get_multiple_plants left every uncached name
\* to the coroutines it gathers
StaticFoundNone(names) == <<>>

\* the JSON fallback of tier 2: the names it answers
RECURSIVE StaticFound(_)
StaticFound(names) ==
    IF names = <<>> THEN <<>>
    ELSE (IF Key(Head(names)) \in DOMAIN static_plants THEN <<Head(names)>> ELSE <<>>)
         \o StaticFound(Tail(names))

RECURSIVE StaticPlantsOf(_)
StaticPlantsOf(names) ==
    IF names = <<>> THEN <<>>
    ELSE <<static_plants[Key(Head(names))]>> \o StaticPlantsOf(Tail(names))

InSeq(x, s) == \E j \in 1..Len(s) : s[j] = x

RECURSIVE NewTasks(_)
NewTasks(names) ==
    IF names = <<>> THEN <<>> ELSE <<NewTask(Head(names))>> \o NewTasks(Tail(names))

\* Tier 3 of get_multiple_plants: gather one get_plant_info per remaining name,
\* or return when nothing remains
Tier3(proc, plants, remaining) ==
    IF remaining # <<>>
    THEN [proc EXCEPT !.pc = "gather", !.plants = plants, !.remaining = remaining,
                      !.tasks = NewTasks(remaining)]
    ELSE [proc EXCEPT !.pc = "done", !.plants = plants, !.remaining = remaining,
                      !.result = plants]

\* get_multiple_plants up to its first await
GmpStart(p, plant_names) ==
    LET t1 == Tier1(cache, timestamps, now, plant_names)
        a == DatabaseAvailable(dbAvailable, dbChecked, dbManager)
        proc0 == [NoProc EXCEPT !.op = "gmp", !.names = plant_names, !.pre = Snapshot,
                                !.plants = t1.plants, !.remaining = t1.remaining]
        json_plants == StaticFound(t1.remaining)
        left == SelectSeq(t1.remaining, LAMBDA name : ~InSeq(name, json_plants))
    IN
    /\ cache' = t1.cache
    /\ timestamps' = t1.timestamps
    /\ IF t1.remaining = <<>>
       THEN /\ procs' = [procs EXCEPT ![p] =
                    [proc0 EXCEPT !.pc = "done", !.result = t1.plants,
                                  !.log = <<"all_cached">>]]
            /\ UNCHANGED latchVars
       ELSE /\ dbAvailable' = a.avail
            /\ dbChecked' = a.checked
            /\ procs' = [procs EXCEPT ![p] =
                    IF a.ret
                    THEN [proc0 EXCEPT !.pc = "batch_select"]
                    ELSE Tier3([proc0 EXCEPT !.log = <<"static">>],
                               t1.plants \o StaticPlantsOf(json_plants), left)]

\* await plant_service.get_multiple_plants(plant_names)
CallGetMultiplePlants(p, plant_names) ==
    /\ plan.pc = "idle"
    /\ MayCall(p)
    /\ GmpStart(p, plant_names)
    /\ UNCHANGED <<db, envVars, plan>>

\* the orders in which an unordered SELECT can deliver a set of rows
RECURSIVE Orders(_)
Orders(S) ==
    IF S = {} THEN {<<>>}
    ELSE UNION {{<<r>> \o o : o \in Orders(S \ {r})} : r \in S}

\* the tier 2 loop over db_plants: append, cache, drop the names it answers
RECURSIVE Tier2Loop(_, _, _, _)
Tier2Loop(acc, db_plants, t, k) ==
    IF k > Len(db_plants) THEN acc
    ELSE LET plant == db_plants[k]
             st == CacheStore(acc.cache, acc.timestamps, t, plant.name, plant)
         IN Tier2Loop([cache |-> st.cache, timestamps |-> st.timestamps,
                       plants |-> Append(acc.plants, plant),
                       remaining |-> SelectSeq(acc.remaining,
                            LAMBDA name : Key(name) # Key(plant.name))],
                      db_plants, t, k + 1)

RECURSIVE InfosOf(_)
InfosOf(rows) ==
    IF rows = <<>> THEN <<>> ELSE <<ModelToPlantInfo(Head(rows))>> \o InfosOf(Tail(rows))

\* _get_multiple_plants_from_database: the batch SELECT completes
GmpBatchSelect(p) ==
    LET proc == procs[p]
        lower_names == {Key(proc.remaining[j]) : j \in 1..Len(proc.remaining)}
        found == {r \in db : Lower(r.name) \in lower_names}
    IN
    /\ proc.op = "gmp" /\ proc.pc = "batch_select"
    /\ \E err \in DbErrors :
          IF err
          THEN procs' = [procs EXCEPT ![p] =
                    Tier3([proc EXCEPT !.log = <<"db_error">>], proc.plants, proc.remaining)]
          ELSE \E plant_models \in Orders(found) :
                    procs' = [procs EXCEPT ![p].pc = "batch_commit",
                                           ![p].rows = plant_models]
    /\ UNCHANGED <<cacheVars, db, latchVars, envVars, histVars, plan>>

\* the UPDATEs a commit sends: each loaded row's usage_count, plus one
RECURSIVE CommitUsage(_, _)
CommitUsage(rows, plant_models) ==
    IF plant_models = <<>> THEN rows
    ELSE CommitUsage(UpdateUsage(rows, Head(plant_models).name,
                                 Head(plant_models).usage + 1),
                     Tail(plant_models))

\* _get_multiple_plants_from_database: the commit of the usage counts completes,
\* then the tier 2 loop and the start of tier 3
GmpBatchCommit(p) ==
    LET proc == procs[p] IN
    /\ proc.op = "gmp" /\ proc.pc = "batch_commit"
    /\ \E err \in DbErrors :
          IF err
          THEN /\ procs' = [procs EXCEPT ![p] =
                    Tier3([proc EXCEPT !.log = <<"db_error">>], proc.plants, proc.remaining)]
               /\ UNCHANGED <<db, cacheVars>>
          ELSE LET r == Tier2Loop([cache |-> cache, timestamps |-> timestamps,
                                   plants |-> proc.plants, remaining |-> proc.remaining],
                                  InfosOf(proc.rows), now, 1)
               IN /\ db' = CommitUsage(db, proc.rows)
                  /\ cache' = r.cache
                  /\ timestamps' = r.timestamps
                  /\ procs' = [procs EXCEPT ![p] =
                        Tier3([proc EXCEPT !.log = <<"db_batch">>], r.plants, r.remaining)]
    /\ UNCHANGED <<latchVars, envVars, histVars, plan>>

\* the collection of gather's results as it would be without the isinstance filter
GatheredUnfiltered(tasks) == [j \in 1..Len(tasks) |-> tasks[j].ret]

RECURSIVE Gathered(_)
Gathered(tasks) ==
    IF tasks = <<>> THEN <<>>
    ELSE (IF Head(tasks).ret # None THEN <<Head(tasks).ret>> ELSE <<>>)
         \o Gathered(Tail(tasks))

\* asyncio.gather returns: the results that are PlantInfo are appended
GmpCollect(p) ==
    LET proc == procs[p] IN
    /\ proc.op = "gmp" /\ proc.pc = "gather"
    /\ \A i \in 1..Len(proc.tasks) : proc.tasks[i].pc = "done"
    /\ procs' = [procs EXCEPT ![p].pc = "done",
                              ![p].result = proc.plants \o Gathered(proc.tasks)]
    /\ UNCHANGED <<cacheVars, db, latchVars, envVars, histVars, plan>>


----------------------------------------------------------------------------
(* The environment of the resolver *)

\* the environment acts between two calls of the run
Between == Quiet /\ plan.pc = "idle" /\ ncalls < MaxCalls

\* time passes, between calls; the clock is read only against the timestamps of
\* the cache, so it is advanced only while the cache holds an entry
Tick ==
    /\ Between
    /\ DOMAIN cache # {}
    /\ now < MaxTime
    /\ now' = now + 1
    /\ UNCHANGED <<cacheVars, db, dbManager, dbFaults, llm, ext, turn, latchVars, procs, histVars,
                 plan>>

EmptyMap == [x \in {} |-> None]

\* PlantCache.clear, between calls
ClearCache ==
    /\ Between
    /\ DOMAIN cache # {}
    /\ cache' = EmptyMap
    /\ timestamps' = EmptyMap
    /\ procs' = [p \in ProcIds |->
                    IF procs[p].op = "idle" THEN procs[p]
                    ELSE [procs[p] EXCEPT !.cleared = TRUE]]
    /\ UNCHANGED <<db, latchVars, envVars, histVars, plan>>

\* models.database.init_database
InitDatabase ==
    /\ Between
    /\ ~dbManager
    /\ dbManager' = TRUE
    /\ UNCHANGED <<cacheVars, db, now, dbFaults, llm, ext, turn, latchVars, procs, histVars,
                 plan>>

\* PlantService.refresh_database_status
RefreshDatabaseStatus ==
    LET a == DatabaseAvailable("None", FALSE, dbManager) IN
    /\ Between
    /\ dbAvailable' = a.avail
    /\ dbChecked' = a.checked
    /\ UNCHANGED <<cacheVars, db, envVars, procs, histVars, plan>>

----------------------------------------------------------------------------
(* GardenPlanService.create_garden_plan *)

\* what a generation function of the assembler hands back: a value, or an exception
Value(v) == [raised |-> FALSE, value |-> v]
Raise(e) == [raised |-> TRUE, error |-> e]

\* the answers of llm_service.generate_plant_info to the schedules prompt
ScheduleResponses ==
    {[kind |-> "none"], [kind |-> "blank"], [kind |-> "garbage"],
     [kind |-> "wrong_shape"], [kind |-> "ok"]}

\* _create_default_schedules: its helpers _calculate_indoor_start_date,
\* _calculate_direct_sow_date and _calculate_transplant_date are defined nowhere,
\* so the first plant of the loop raises AttributeError
CreateDefaultSchedules(plants) ==
    IF plants = <<>> THEN Value(<<>>) ELSE Raise("AttributeError")

\* _generate_planting_schedules: every path but a well-formed array ends in
\* _create_default_schedules, also from inside its own except clause
GeneratePlantingSchedules(plants, response) ==
    IF response.kind = "ok"
    THEN Value([j \in 1..Len(plants) |-> [plant_name |-> plants[j].name, by |-> "llm"]])
    ELSE CreateDefaultSchedules(plants)

\* the six lists of GrowingInstructions
InstructionCategories ==
    {"preparation_steps", "planting_steps", "care_instructions", "pest_management",
     "harvest_instructions", "storage_tips"}

\* the lists _enhance_basic_instructions writes itself
EnhancedCategories ==
    {"preparation_steps", "planting_steps", "care_instructions", "harvest_instructions"}

\* is_detailed = detail_count >= 5
DetailThreshold == 5

\* the answers of the generator to the instructions prompt of one plant: nothing,
\* text of at most 200 characters, text with no JSON object in it, or an object
\* in whose lists so many of the detail indicators occur, which names the plant or
\* another one and has all six lists or lacks one
InstructionResponses(plant) ==
    {[kind |-> "none"], [kind |-> "short"], [kind |-> "garbage"]}
    \cup {[kind |-> "instruction_data", indicators |-> n, plant_name |-> name,
           has |-> InstructionCategories] :
             n \in {DetailThreshold - 1, DetailThreshold}, name \in {plant.name, NameL}}
    \cup {[kind |-> "instruction_data", indicators |-> n, plant_name |-> plant.name,
           has |-> InstructionCategories \ {c}] :
             n \in {DetailThreshold - 1, DetailThreshold},
             c \in {"care_instructions", "storage_tips"}}

\* _validate_instruction_quality as it would be with the test written > 5
ValidateInstructionQualityAbove(instruction_data) ==
    instruction_data.indicators > DetailThreshold

\* _validate_instruction_quality
ValidateInstructionQuality(instruction_data) ==
    instruction_data.indicators >= DetailThreshold

\* an entry of the instructions list: the name it carries, how it was built, the
\* plant of the loop turn that built it, and the lists that are the response's text
Instructions(plant_name, by, plant, raw) ==
    [plant_name |-> plant_name, by |-> by, subject |-> plant.name, raw |-> raw]

\* _create_enhanced_default_instructions
CreateEnhancedDefaultInstructions(plant) ==
    Instructions(plant.name, "enhanced_default", plant, {})

\* _create_default_instructions: one sentence per list, with the name of the plant.
\* Its only call is in the except clause of Step 4, which no step of the loop of
\* _generate_growing_instructions reaches, every failure being answered inside the loop
CreateDefaultInstructions(plant) ==
    Instructions(plant.name, "default", plant, {})

\* the attributes of the plant that the sentences of a default interpolate
TemplateAttributes(by) ==
    CASE by = "enhanced_default" ->
             {"name", "sun_requirements", "soil_ph_range", "water_requirements",
              "planting_depth_inches", "spacing_inches", "plant_type", "days_to_harvest"}
      [] by = "default" -> {"name"}
      [] OTHER -> {}

\* _enhance_basic_instructions: four lists are computed from the plant and the
\* frost dates, the rest of the response is kept; GrowingInstructions(**enhanced_data)
\* raises when a list is still missing
EnhanceBasicInstructions(instruction_data, plant) ==
    IF instruction_data.has \cup EnhancedCategories = InstructionCategories
    THEN Value(Instructions(instruction_data.plant_name, "enhanced", plant,
                            instruction_data.has \ EnhancedCategories))
    ELSE Raise("ValidationError")

\* the loop turn as it would be if the fallback were built for the first plant of
\* the list, whichever plant the turn is about
GenerateGrowingInstructionForFirst(plant, response) ==
    IF response.kind # "instruction_data" \/ response.has # InstructionCategories
    THEN CreateEnhancedDefaultInstructions(plan.plant_information[1])
    ELSE IF ValidateInstructionQuality(response)
    THEN Instructions(response.plant_name, "llm", plant, response.has)
    ELSE EnhanceBasicInstructions(response, plant).value

\* the loop turn as it would be if a response without JSON were answered with the
\* basic default
GenerateGrowingInstructionBasic(plant, response) ==
    IF response.kind # "instruction_data" THEN CreateDefaultInstructions(plant)
    ELSE IF ValidateInstructionQuality(response)
    THEN (IF response.has = InstructionCategories
          THEN Instructions(response.plant_name, "llm", plant, response.has)
          ELSE CreateEnhancedDefaultInstructions(plant))
    ELSE LET enhanced_instructions == EnhanceBasicInstructions(response, plant)
         IN IF enhanced_instructions.raised
            THEN CreateEnhancedDefaultInstructions(plant)
            ELSE enhanced_instructions.value

\* one turn of the loop of _generate_growing_instructions
GenerateGrowingInstruction(plant, response) ==
    IF response.kind # "instruction_data" THEN CreateEnhancedDefaultInstructions(plant)
    ELSE IF ValidateInstructionQuality(response)
    THEN (IF response.has = InstructionCategories
          THEN Instructions(response.plant_name, "llm", plant, response.has)
          ELSE CreateEnhancedDefaultInstructions(plant))
    ELSE LET enhanced_instructions == EnhanceBasicInstructions(response, plant)
         IN IF enhanced_instructions.raised
            THEN CreateEnhancedDefaultInstructions(plant)
            ELSE enhanced_instructions.value

\* if response and len(response.strip()) > 200
MinResponseLength == 200

\* the longest run of blanks before and after the text of an answer
MaxBlank == 1

\* the text of an answer to the instructions prompt: the number of blanks before its
\* first and after its last non-blank character, the number of characters from the
\* first to the last non-blank one, and what the extraction and the checks after it
\* make of the text
ResponseText(lead, body, trail, content) ==
    [lead |-> lead, body |-> body, trail |-> trail, content |-> content]

\* len(response)
ResponseLen(response) == response.lead + response.body + response.trail

\* response.strip()
ResponseStrip(response) == [response EXCEPT !.lead = 0, !.trail = 0]

\* what llm_service.generate_plant_info can hand back for the instructions prompt of a
\* plant: None, the empty text, blanks only, or a text whose stripped length is below,
\* at or above the threshold and which holds no JSON object or one of the objects of
\* InstructionResponses
InstructionTexts(plant) ==
    {None, ResponseText(0, 0, 0, [kind |-> "garbage"]),
     ResponseText(MaxBlank, 0, 0, [kind |-> "garbage"])}
    \cup {ResponseText(lead, body, trail, content) :
             lead \in 0..MaxBlank, trail \in 0..MaxBlank,
             body \in {MinResponseLength - 1, MinResponseLength, MinResponseLength + 1},
             content \in {response \in InstructionResponses(plant) :
                             response.kind \in {"garbage", "instruction_data"}}}

\* the loop turn as it would be with the test written >= 200
GenerateGrowingInstructionsTurnAtLeast(plant, response) ==
    IF response # None /\ ResponseLen(response) > 0
       /\ ResponseLen(ResponseStrip(response)) >= MinResponseLength
    THEN GenerateGrowingInstruction(plant, response.content)
    ELSE CreateEnhancedDefaultInstructions(plant)

\* one turn of the loop of _generate_growing_instructions on the text of the answer:
\* the test of the length, then the extraction and what follows it
GenerateGrowingInstructionsTurn(plant, response) ==
    IF response # None /\ ResponseLen(response) > 0
       /\ ResponseLen(ResponseStrip(response)) > MinResponseLength
    THEN GenerateGrowingInstruction(plant, response.content)
    ELSE CreateEnhancedDefaultInstructions(plant)

\* the answers of the generator to the layout prompt
LayoutResponses ==
    {[kind |-> "none"], [kind |-> "garbage"], [kind |-> "array"], [kind |-> "object"]}

\* _generate_layout_recommendations, with the default it builds itself
GenerateLayoutRecommendations(plants, response) ==
    CASE response.kind = "array" -> [by |-> "llm_converted"]
      [] response.kind = "object" -> [by |-> "llm"]
      [] OTHER -> [by |-> "default",
                   plants |-> [j \in 1..Len(plants) |-> plants[j].name]]

\* the answers of the generator to the tips prompt
TipsResponses ==
    {[kind |-> "none"], [kind |-> "garbage"], [kind |-> "object"],
     [kind |-> "strings"], [kind |-> "objects"]}

\* _create_default_tips: four tips that interpolate the number of plants, the size of
\* the garden, the zone and the days of the growing season. Its only call is in the
\* except clause of Step 6, which _generate_general_tips never reaches: it catches
\* every exception itself and returns its own list
CreateDefaultTips ==
    [by |-> "create_default_tips", items |-> "str",
     interpolates |-> {"len(plants)", "request.garden_size", "location.usda_zone",
                       "location.growing_season_days"}]

\* _generate_general_tips: a list is returned whatever its items are; without a list,
\* the four tips at the end of the function, of which the first interpolates the zone
GenerateGeneralTips(response) ==
    CASE response.kind = "strings" -> [by |-> "llm", items |-> "str", interpolates |-> {}]
      [] response.kind = "objects" -> [by |-> "llm", items |-> "dict", interpolates |-> {}]
      [] OTHER -> [by |-> "default", items |-> "str",
                   interpolates |-> {"location.usda_zone"}]

\* GardenPlan(...): general_tips is Optional[List[str]]
GardenPlanValid(general_tips) == general_tips.items = "str"

\* the generative service failed: llm_service.generate_plant_info returned None
NoText(response) == response.kind = "none"

\* the response parsed as JSON but not as what the section expects: schedules
\* that are no array of objects with a plant_name, instructions lacking a list,
\* tips whose items are no strings
WrongShape(response) ==
    \/ response.kind \in {"wrong_shape", "objects"}
    \/ response.kind = "instruction_data" /\ response.has # InstructionCategories

NoPlan ==
    [pc |-> "idle", request |-> <<>>, plant_information |-> <<>>,
     planting_schedules |-> <<>>, growing_instructions |-> <<>>,
     layout_recommendations |-> [by |-> "unset"], general_tips |-> [by |-> "unset"],
     calls |-> <<>>, saved |-> FALSE, error |-> "none", named |-> <<>>,
     proc |-> "none", answered |-> FALSE, misshapen |-> FALSE, stages |-> <<>>]

\* create_garden_plan up to the first await of get_multiple_plants
CreateGardenPlan(p, selected_plants) ==
    /\ plan.pc = "idle"
    /\ MayCall(p)
    /\ GmpStart(p, selected_plants)
    /\ plan' = [NoPlan EXCEPT !.pc = "resolving", !.request = selected_plants,
                              !.proc = p, !.stages = <<"location">>]
    /\ UNCHANGED <<db, envVars>>

\* Step 2 as it would be without the test for an empty resolution
PlanResolvedAnyway(p) ==
    /\ plan.pc = "resolving"
    /\ plan.proc = p
    /\ Done(procs[p])
    /\ plan' = [plan EXCEPT !.pc = "schedules", !.plant_information = procs[p].result]
    /\ UNCHANGED <<cacheVars, db, latchVars, envVars, procs, histVars>>

\* Step 2 as it would be if it filled in a record for each name left unresolved
PlanResolvedPadded(p) ==
    /\ plan.pc = "resolving"
    /\ plan.proc = p
    /\ Done(procs[p])
    /\ LET found == procs[p].result
           plant_information ==
               [j \in 1..Len(plan.request) |->
                   IF j <= Len(found) THEN found[j] ELSE PlantInfo(plan.request[j], NoInt)]
       IN plan' = IF found = <<>>
                  THEN [plan EXCEPT !.pc = "failed", !.error = "ValueError",
                                    !.named = plan.request]
                  ELSE [plan EXCEPT !.pc = "schedules",
                                    !.plant_information = plant_information]
    /\ UNCHANGED <<cacheVars, db, latchVars, envVars, procs, histVars>>

\* get_multiple_plants has returned: Step 2 ends, with the ValueError when nothing
\* was resolved
PlanResolved(p) ==
    /\ plan.pc = "resolving"
    /\ plan.proc = p
    /\ Done(procs[p])
    /\ LET plant_information == procs[p].result
       IN plan' = IF plant_information = <<>>
                  THEN [plan EXCEPT !.pc = "failed", !.error = "ValueError",
                                    !.named = plan.request,
                                    !.stages = Append(plan.stages, "failed")]
                  ELSE [plan EXCEPT !.pc = "schedules",
                                    !.plant_information = plant_information,
                                    !.stages = Append(plan.stages, "entities")]
    /\ UNCHANGED <<cacheVars, db, latchVars, envVars, procs, histVars>>

\* Step 3 as it would be if a schedules call that got no answer were issued once
\* more before falling back
PlanSchedulesRetry ==
    /\ plan.pc = "schedules"
    /\ \E response \in Generated(ScheduleResponses) :
       LET first == GeneratePlantingSchedules(plan.plant_information, response)
           planting_schedules ==
               IF first.raised THEN CreateDefaultSchedules(plan.plant_information)
               ELSE first
           called == [plan EXCEPT !.calls = Append(plan.calls, "schedules"),
                     !.answered = plan.answered \/ ~NoText(response),
                     !.misshapen = plan.misshapen \/ WrongShape(response)]
       IN plan' = IF NoText(response) /\ plan.calls = <<>>
                  THEN called
                  ELSE IF planting_schedules.raised
                  THEN [called EXCEPT !.pc = "failed", !.error = planting_schedules.error]
                  ELSE [called EXCEPT !.pc = "instructions",
                                      !.planting_schedules = planting_schedules.value]
    /\ UNCHANGED <<cacheVars, db, latchVars, envVars, procs, histVars>>

\* Step 3: _generate_planting_schedules, and _create_default_schedules when it raises
PlanSchedules ==
    /\ plan.pc = "schedules"
    /\ \E response \in Generated(ScheduleResponses) :
       LET first == GeneratePlantingSchedules(plan.plant_information, response)
           planting_schedules ==
               IF first.raised THEN CreateDefaultSchedules(plan.plant_information)
               ELSE first
           called == [plan EXCEPT !.calls = Append(plan.calls, "schedules"),
                     !.answered = plan.answered \/ ~NoText(response),
                     !.misshapen = plan.misshapen \/ WrongShape(response)]
       IN plan' = IF planting_schedules.raised
                  THEN [called EXCEPT !.pc = "failed", !.error = planting_schedules.error]
                  ELSE [called EXCEPT !.pc = "instructions",
                                      !.planting_schedules = planting_schedules.value]
    /\ UNCHANGED <<cacheVars, db, latchVars, envVars, procs, histVars>>

\* Step 4: one turn of the loop over the plants, in order
PlanInstructions ==
    /\ plan.pc = "instructions"
    /\ \E response \in Generated(InstructionResponses(
                          plan.plant_information[Len(plan.growing_instructions) + 1])) :
       LET plant == plan.plant_information[Len(plan.growing_instructions) + 1]
           instructions_list ==
               Append(plan.growing_instructions, GenerateGrowingInstruction(plant, response))
       IN plan' = [plan EXCEPT
                     !.calls = Append(plan.calls, "instructions"),
                     !.answered = plan.answered \/ ~NoText(response),
                     !.misshapen = plan.misshapen \/ WrongShape(response),
                     !.growing_instructions = instructions_list,
                     !.pc = IF Len(instructions_list) = Len(plan.plant_information)
                            THEN "layout" ELSE "instructions"]
    /\ UNCHANGED <<cacheVars, db, latchVars, envVars, procs, histVars>>

\* Step 5: _generate_layout_recommendations
PlanLayout ==
    /\ plan.pc = "layout"
    /\ \E response \in Generated(LayoutResponses) :
          plan' = [plan EXCEPT
                     !.calls = Append(plan.calls, "layout"),
                     !.answered = plan.answered \/ ~NoText(response),
                     !.layout_recommendations =
                         GenerateLayoutRecommendations(plan.plant_information, response),
                     !.pc = "tips"]
    /\ UNCHANGED <<cacheVars, db, latchVars, envVars, procs, histVars>>

\* Step 6 as it would be if a failure of _save_garden_plan were not swallowed
PlanTipsSaveRaises ==
    /\ plan.pc = "tips"
    /\ \E response \in Generated(TipsResponses), written \in BOOLEAN :
       LET general_tips == GenerateGeneralTips(response)
           called == [plan EXCEPT !.calls = Append(plan.calls, "tips"),
                     !.answered = plan.answered \/ ~NoText(response),
                     !.misshapen = plan.misshapen \/ WrongShape(response)]
           generated == Append(plan.stages, "sections")
       IN plan' = IF ~GardenPlanValid(general_tips)
                  THEN [called EXCEPT !.pc = "failed", !.error = "ValidationError",
                                      !.stages = generated]
                  ELSE IF written
                  THEN [called EXCEPT !.pc = "done", !.general_tips = general_tips,
                                      !.saved = TRUE,
                                      !.stages = generated \o <<"assembled", "persisted", "done">>]
                  ELSE [called EXCEPT !.pc = "failed", !.error = "OSError",
                                      !.stages = generated \o <<"assembled">>]
    /\ UNCHANGED <<cacheVars, db, latchVars, envVars, procs, histVars>>

\* Step 6, the construction of GardenPlan and _save_garden_plan, whose failure is
\* swallowed
PlanTips ==
    /\ plan.pc = "tips"
    /\ \E response \in Generated(TipsResponses), written \in BOOLEAN :
       LET general_tips == GenerateGeneralTips(response)
           called == [plan EXCEPT !.calls = Append(plan.calls, "tips"),
                     !.answered = plan.answered \/ ~NoText(response),
                     !.misshapen = plan.misshapen \/ WrongShape(response)]
           generated == Append(plan.stages, "sections")
       IN plan' = IF GardenPlanValid(general_tips)
                  THEN [called EXCEPT !.pc = "done", !.general_tips = general_tips,
                                      !.saved = written,
                                      !.stages = generated \o <<"assembled">>
                                          \o (IF written THEN <<"persisted">> ELSE <<>>)
                                          \o <<"done">>]
                  ELSE [called EXCEPT !.pc = "failed", !.error = "ValidationError",
                                      !.stages = generated]
    /\ UNCHANGED <<cacheVars, db, latchVars, envVars, procs, histVars>>

\* the caller has taken the plan, or the exception
PlanReturn ==
    /\ plan.pc \in {"done", "failed"}
    /\ plan' = NoPlan
    /\ UNCHANGED <<cacheVars, db, latchVars, envVars, procs, histVars>>


----------------------------------------------------------------------------
(* The resolver on its own *)

\* the plants table as seeded before the service runs
SeedK == Row(NameK, 60, 1, "static")
SeedCK == Row(NameCK, 60, 1, "static")
InitialStore == {SeedK, SeedCK}

\* the lists of names callers pass to get_multiple_plants
BatchRequests ==
    {<<NameK, NameKsp>>, <<NameKsp, NameXL>>, <<NameK, NameCK>>, <<NameC>>}

Init ==
    /\ cache = EmptyMap
    /\ timestamps = EmptyMap
    /\ now = 0
    /\ db = InitialStore
    /\ dbManager = FALSE
    /\ dbAvailable = "None"
    /\ dbChecked = FALSE
    /\ dbFaults = FALSE
    /\ llm = Answering
    /\ ext = NoExtraction
    /\ turn = NoTurn
    /\ procs = [p \in {"caller"} |-> NoProc]
    /\ prev = NoCall
    /\ ncalls = 0
    /\ plan = NoPlan

TaskStep(p, i) ==
    \/ TaskStart(p, i)
    \/ TaskDbLookup(p, i)
    \/ TaskIncrSelect(p, i)
    \/ TaskIncrCommit(p, i)
    \/ TaskLlm(p, i)
    \/ TaskStoreSelect(p, i)
    \/ TaskStoreCommit(p, i)

Next ==
    \/ \E p \in ProcIds, name \in RequestNames : CallGetPlantInfo(p, name)
    \/ \E p \in ProcIds, names \in BatchRequests : CallGetMultiplePlants(p, names)
    \/ \E p \in ProcIds : \E i \in 1..Len(procs[p].tasks) : TaskStep(p, i)
    \/ \E p \in ProcIds : GmpBatchSelect(p)
    \/ \E p \in ProcIds : GmpBatchCommit(p)
    \/ \E p \in ProcIds : GmpCollect(p)
    \/ Tick
    \/ ClearCache
    \/ InitDatabase
    \/ RefreshDatabaseStatus

Spec == Init /\ [][Next]_vars

\* the selections callers submit
PlanRequests == {<<NameK, NameXL>>, <<NameXL>>, <<NameKsp, NameC>>}

NextPlan ==
    \/ \E p \in ProcIds, selected_plants \in PlanRequests :
          CreateGardenPlan(p, selected_plants)
    \/ \E p \in ProcIds : PlanResolved(p)
    \/ PlanSchedules
    \/ PlanInstructions
    \/ PlanLayout
    \/ PlanTips
    \/ PlanReturn
    \/ \E p \in ProcIds : \E i \in 1..Len(procs[p].tasks) : TaskStep(p, i)
    \/ \E p \in ProcIds : GmpBatchSelect(p)
    \/ \E p \in ProcIds : GmpBatchCommit(p)
    \/ \E p \in ProcIds : GmpCollect(p)
    \/ InitDatabase
    \/ RefreshDatabaseStatus

SpecPlan == Init /\ [][NextPlan]_vars

----------------------------------------------------------------------------
(* The turn of the instructions loop, on the text of the answer *)

\* the plants the loop is run over
TurnPlants == StaticJson \cup {PlantInfo(NameXL, NoInt)}

turnFrame == <<cacheVars, db, now, dbManager, dbFaults, llm, ext, latchVars, procs,
               histVars, plan>>

\* for plant in plants: the prompt is built and llm_service.generate_plant_info awaited
TurnCall ==
    /\ turn.pc = "idle"
    /\ \E plant \in TurnPlants : turn' = [pc |-> "awaiting", plant |-> plant]
    /\ UNCHANGED turnFrame

\* the answer arrives and the turn appends its entry to instructions_list
TurnAnswer ==
    /\ turn.pc = "awaiting"
    /\ \E response \in InstructionTexts(turn.plant) :
          turn' = [pc |-> "appended", plant |-> turn.plant, response |-> response,
                   entry |-> GenerateGrowingInstructionsTurn(turn.plant, response)]
    /\ UNCHANGED turnFrame

\* the loop goes on to the next plant
TurnNext ==
    /\ turn.pc = "appended"
    /\ turn' = NoTurn
    /\ UNCHANGED turnFrame

NextTurn == TurnCall \/ TurnAnswer \/ TurnNext

SpecTurn == Init /\ [][NextTurn]_vars


----------------------------------------------------------------------------
(* Properties of the plan assembler, under SpecPlan *)

\* the call of get_multiple_plants came back with a record read from the plants table
ResolvedFromStore(proc) ==
    /\ proc.op = "gmp" /\ Done(proc)
    /\ proc.result # <<>>
    /\ proc.rows # <<>> \/ Events(proc) \cap {"db_hit_exact", "db_hit_partial"} # {}

\* every answer of the generator to the resolver was no text at all
ResolverGenerationDown(proc) ==
    Events(proc) \cap {"llm_garbage", "llm_null", "llm_invalid", "llm_object"} = {}

\* every section of the plan is the default one
DefaultSections ==
    /\ Len(plan.planting_schedules) = Len(plan.plant_information)
    /\ \A j \in 1..Len(plan.planting_schedules) : plan.planting_schedules[j].by = "default"
    /\ Len(plan.growing_instructions) = Len(plan.plant_information)
    /\ \A j \in 1..Len(plan.growing_instructions) :
          plan.growing_instructions[j].by = "enhanced_default"
    /\ plan.layout_recommendations.by = "default"
    /\ plan.general_tips.by = "default"

\* C1: when at least one requested plant resolves from the Store and every
\* generative call fails (returns no text), create_garden_plan ends by returning a
\* plan that holds exactly the resolved entities and the default schedules,
\* instructions, layout and tips; it does not end with an exception.
C1_DefaultPlanWhenGenerationDown ==
    \A p \in ProcIds :
        (/\ plan.proc = p
         /\ plan.pc \in {"done", "failed"}
         /\ ResolvedFromStore(procs[p])
         /\ ResolverGenerationDown(procs[p])
         /\ ~plan.answered)
        => (/\ plan.pc = "done"
            /\ plan.plant_information = procs[p].result
            /\ DefaultSections)

\* the state that refutes C1: the Store resolved a plant, the schedules call brought no
\* text, and the request ended with the AttributeError of _create_default_schedules
C1_DefaultSchedulesRaise ==
    \E p \in ProcIds :
        /\ plan.proc = p
        /\ plan.pc = "failed"
        /\ plan.error = "AttributeError"
        /\ plan.calls = <<"schedules">>
        /\ ~plan.answered
        /\ ResolvedFromStore(procs[p])
        /\ ResolverGenerationDown(procs[p])

\* C2: when resolution returns no entity, create_garden_plan fails with the
\* ValueError that names the requested plants, no section call has been issued,
\* nothing has been saved, and the plants table is as the request found it.
C2_ZeroEntitiesFails ==
    \A p \in ProcIds :
        (/\ plan.proc = p
         /\ plan.pc \notin {"idle", "resolving"}
         /\ procs[p].result = <<>>)
        => (/\ plan.pc = "failed"
            /\ plan.error = "ValueError"
            /\ plan.named = plan.request
            /\ plan.calls = <<>>
            /\ ~plan.saved
            /\ db = procs[p].pre.db)

\* a request whose only plant could not be resolved has failed
C2_NothingResolved ==
    /\ plan.pc = "failed"
    /\ plan.error = "ValueError"
    /\ plan.named = <<NameXL>>
    /\ \E p \in ProcIds : plan.proc = p /\ "llm_fail" \in Events(procs[p])

\* C3: a resolution that returned some but not all entities is never refused: from
\* Step 3 on the plan carries exactly the entities get_multiple_plants returned, in
\* its order, nothing is added for a name that was not resolved, and the request
\* does not end with the ValueError of Step 2.
C3_PartialResolutionAccepted ==
    \A p \in ProcIds :
        (/\ plan.proc = p
         /\ plan.pc \notin {"idle", "resolving"}
         /\ procs[p].result # <<>>)
        => (/\ plan.error # "ValueError"
            /\ plan.plant_information = procs[p].result)

\* a plan was returned for a request of two names of which one was resolved
C3_PartialPlanReturned ==
    /\ plan.pc = "done"
    /\ plan.request = <<NameK, NameXL>>
    /\ Len(plan.plant_information) = 1
    /\ plan.plant_information[1].name = NameK


----------------------------------------------------------------------------
(* Properties of the resolver, under Spec *)

StoreHitEvents == {"db_hit_exact", "db_hit_partial"}
StoreEvents ==
    StoreHitEvents \cup {"db_miss", "db_error", "db_batch", "incr", "incr_none",
                         "db_insert", "db_exists"}
LlmCallEvents == {"llm_ok", "llm_fail"}
LlmFailureEvents == {"llm_none", "llm_garbage", "llm_null", "llm_invalid"}

\* a finished call of get_plant_info
FinishedLookup(proc) == proc.op = "gpi" /\ Done(proc)

\* a finished call of get_multiple_plants
FinishedBatch(proc) == proc.op = "gmp" /\ Done(proc)

\* the events of one coroutine
TaskEvents(task) == {task.log[j] : j \in 1..Len(task.log)}

\* the tier order as one coroutine of get_plant_info has to show it in its log
TierOrder(ev) ==
    /\ "cache_hit" \in ev => ev = {"cache_hit"}
    /\ ev \cap StoreHitEvents # {} =>
          /\ "cache_store" \in ev
          /\ "incr" \in ev
          /\ ev \cap LlmCallEvents = {}
    /\ ev \cap LlmCallEvents # {} =>
          /\ ev \cap {"cache_miss", "cache_expired"} # {}
          /\ ev \cap {"db_miss", "static_miss"} # {}

\* C4: the tiers are consulted in the order cache, Store, generative: a cache hit
\* ends the call with no Store or generative call; a Store hit is written to the
\* cache, increments the usage counter and ends the call with no generative call;
\* the generator is called for a name only after the cache and the Store missed it.
\* In get_multiple_plants a call answered by the cache alone does nothing else, and
\* every row of a batch hit has its usage counter incremented.
C4_TierOrder ==
    \A p \in ProcIds :
        /\ \A i \in 1..Len(procs[p].tasks) :
              procs[p].tasks[i].pc = "done" => TierOrder(TaskEvents(procs[p].tasks[i]))
        /\ (FinishedBatch(procs[p]) /\ "all_cached" \in Events(procs[p]))
              => Events(procs[p]) = {"all_cached"}
        /\ (FinishedBatch(procs[p]) /\ "db_batch" \in Events(procs[p]))
              => \A j \in 1..Len(procs[p].rows) :
                    \E r \in db : /\ r.name = procs[p].rows[j].name
                                  /\ r.usage > procs[p].rows[j].usage

\* the state that refutes C4: the Store answered a lookup through its partial name
\* match, the record was returned, and no usage counter moved
C4_PartialHitNotCounted ==
    \E p \in ProcIds :
        /\ FinishedLookup(procs[p])
        /\ "db_hit_partial" \in Events(procs[p])
        /\ "incr_none" \in Events(procs[p])
        /\ Returned(procs[p]) # <<>>
        /\ db = procs[p].pre.db

\* C5: when a lookup was answered from the Store, the following lookups of the same
\* key made while the record is no older than the TTL, with the cache not cleared
\* in between, return the identical record and consist of the cache hit alone: no
\* Store query, no generative call.
C5_RepeatedLookupFromCache ==
    \A p \in ProcIds :
        (/\ FinishedLookup(procs[p])
         /\ prev.op = "gpi"
         /\ Key(prev.names[1]) = Key(procs[p].names[1])
         /\ prev.origin # NoInt
         /\ ~prev.cleared
         /\ procs[p].pre.now - prev.origin <= CacheDuration)
        => (/\ Returned(procs[p]) = prev.result
            /\ Events(procs[p]) = {"cache_hit"})

\* a lookup repeated when the record read from the Store is exactly as old as the TTL
C5_RepeatedAtTTL ==
    \E p \in ProcIds :
        /\ FinishedLookup(procs[p])
        /\ prev.op = "gpi"
        /\ Key(prev.names[1]) = Key(procs[p].names[1])
        /\ prev.origin # NoInt
        /\ ~prev.cleared
        /\ procs[p].pre.now - prev.origin = CacheDuration
        /\ Events(procs[p]) = {"cache_hit"}
        /\ Returned(procs[p]) = prev.result
        /\ Returned(procs[p]) # <<>>

\* C6: after a successful generation for a name with the Store available, the next
\* get_plant_info for that name - within the TTL, or after the cache was cleared -
\* makes no generative call and returns the same record data.
C6_GeneratedRecordServedLater ==
    \A p \in ProcIds :
        (/\ FinishedLookup(procs[p])
         /\ prev.op = "gpi"
         /\ Key(prev.names[1]) = Key(procs[p].names[1])
         /\ "llm_ok" \in prev.events
         /\ "static_miss" \notin prev.events
         /\ \/ prev.cleared
            \/ procs[p].pre.now - prev.t0 <= CacheDuration)
        => (/\ Events(procs[p]) \cap LlmCallEvents = {}
            /\ Returned(procs[p]) = prev.result)

\* the state that refutes C6: a record generated under the requested name, with no
\* days_to_harvest, while the Store was available, was not found in the Store after
\* the cache was cleared, and the generator was called again
C6_GeneratedAgainAfterClear ==
    \E p \in ProcIds :
        /\ FinishedLookup(procs[p])
        /\ prev.op = "gpi"
        /\ prev.names = procs[p].names
        /\ "llm_ok" \in prev.events
        /\ "static_miss" \notin prev.events
        /\ prev.result = <<PlantInfo(prev.names[1], NoInt)>>
        /\ prev.cleared
        /\ "db_miss" \in Events(procs[p])
        /\ Events(procs[p]) \cap LlmCallEvents # {}

\* C7: whenever the generator answered get_plant_info with nothing, with text that
\* is no JSON, with null, or with a record that fails validation, the coroutine
\* ends there and returns None.
C7_GenerativeFailureReturnsNone ==
    \A p \in ProcIds :
        \A i \in 1..Len(procs[p].tasks) :
            TaskEvents(procs[p].tasks[i]) \cap LlmFailureEvents # {}
            => (/\ procs[p].tasks[i].pc = "done"
                /\ procs[p].tasks[i].ret = None
                /\ "cache_store" \notin TaskEvents(procs[p].tasks[i]))

\* a lookup whose generated record failed validation returned None
C7_InvalidRecordGivesNone ==
    \E p \in ProcIds :
        /\ FinishedLookup(procs[p])
        /\ "llm_invalid" \in Events(procs[p])
        /\ Returned(procs[p]) = <<>>


\* the entry the cache held for the key when the call began, if no older than the TTL
FreshIn(pre, key) ==
    key \in DOMAIN pre.cache /\ pre.now - pre.timestamps[key] <= CacheDuration

\* the records the cache and the Store (the static table when the database is not
\* available) held for a name when the call began
HeldFor(pre, name) ==
    IF FreshIn(pre, Key(name)) THEN {pre.cache[Key(name)]}
    ELSE IF pre.store THEN GetPlantFromDatabase(pre.db, name) \ {None}
    ELSE IF Key(name) \in DOMAIN static_plants THEN {static_plants[Key(name)]}
    ELSE {}

\* C8: when every generative call fails, get_multiple_plants returns a list (it
\* does not raise) that holds exactly what the cache and the Store had for the
\* names: every entry is the record held for a requested name, every name with a
\* record held is answered, and the list is empty when nothing was held.
C8_BatchWithoutGeneration ==
    \A p \in ProcIds :
        (FinishedBatch(procs[p]) /\ "llm_ok" \notin Events(procs[p]))
        => LET names == procs[p].names
               result == procs[p].result
               pre == procs[p].pre
           IN /\ \A j \in 1..Len(result) :
                    \E k \in 1..Len(names) : result[j] \in HeldFor(pre, names[k])
              /\ \A k \in 1..Len(names) :
                    HeldFor(pre, names[k]) # {}
                    => \E j \in 1..Len(result) : result[j] \in HeldFor(pre, names[k])

\* a batch of a stored name and a name only the generator could supply, with the
\* generator failing, returned the stored record alone
C8_StoredSubsetReturned ==
    \E p \in ProcIds :
        /\ FinishedBatch(procs[p])
        /\ procs[p].names = <<NameKsp, NameXL>>
        /\ procs[p].pre.store
        /\ "llm_fail" \in Events(procs[p])
        /\ procs[p].result = <<PlantInfo(NameK, 60)>>

\* C9: get_multiple_plants returns one entry per normalized name: no two entries
\* of its result carry names that are equal after trimming and case folding.
C9_OneEntityPerNormalizedName ==
    \A p \in ProcIds :
        FinishedBatch(procs[p])
        => \A i, j \in 1..Len(procs[p].result) :
              i # j => Key(procs[p].result[i].name) # Key(procs[p].result[j].name)

\* the state that refutes C9: two spellings of one name, both answered by the cache
\* seeded with one record, gave the record twice
C9_RecordTwiceFromCache ==
    \E p \in ProcIds :
        /\ FinishedBatch(procs[p])
        /\ procs[p].names = <<NameK, NameKsp>>
        /\ Events(procs[p]) = {"all_cached"}
        /\ procs[p].result = <<PlantInfo(NameK, 60), PlantInfo(NameK, 60)>>

\* C10: PlantCache.get, as every get_plant_info begins with it, looks the name up
\* under its trimmed, case-folded key; it returns None exactly when the key has no
\* entry or the entry is older than the TTL of one hour; an expired entry is
\* removed with its timestamp; an entry no older than the TTL is returned as stored
\* and the cache is left as it was.
C10_CacheGetContract ==
    [][\A p \in ProcIds :
        (procs'[p].op = "gpi" /\ ncalls' = ncalls + 1)
        => LET key == Key(procs'[p].names[1])
               absent == key \notin DOMAIN cache
               expired == ~absent /\ now - timestamps[key] > CacheDuration
               task == procs'[p].tasks[1]
               hit == task.log[1] = "cache_hit"
           IN /\ hit <=> ~(absent \/ expired)
              /\ hit => /\ task.ret = cache[key]
                        /\ task.pc = "done"
                        /\ cache' = cache
                        /\ timestamps' = timestamps
              /\ expired => /\ key \notin DOMAIN cache'
                            /\ key \notin DOMAIN timestamps'
                            /\ \A k \in DOMAIN cache' : k \in DOMAIN cache /\ cache'[k] = cache[k]
              /\ absent => cache' = cache /\ timestamps' = timestamps]_vars

\* the name " k " was answered from the entry stored under "k" one TTL earlier
C10_HitUnderNormalizedKey ==
    \E p \in ProcIds :
        /\ FinishedLookup(procs[p])
        /\ procs[p].names = <<NameKsp>>
        /\ Events(procs[p]) = {"cache_hit"}
        /\ <<"k">> \in DOMAIN procs[p].pre.cache
        /\ procs[p].pre.now - procs[p].pre.timestamps[<<"k">>] = CacheDuration
        /\ Returned(procs[p]) = <<procs[p].pre.cache[<<"k">>]>>

\* what the Store tier logs first when get_plant_info consults it: the outcome of
\* the query of the plants table, or of the static table when the database is not
\* available
StoreQueryEvents == StoreHitEvents \cup {"db_miss", "db_error", "static_hit", "static_miss"}

\* the entry the cache held for the key when the call began, older than the TTL
ExpiredIn(pre, key) ==
    key \in DOMAIN pre.cache /\ pre.now - pre.timestamps[key] > CacheDuration

\* C11: a get_plant_info for a name whose cache entry is older than the TTL is a
\* cache miss (the entry is dropped, never served) and goes on to the Store: the
\* query is under way, or its outcome is the next thing the call logged.
C11_ExpiredEntryRequeriesStore ==
    \A p \in ProcIds :
        (procs[p].op = "gpi" /\ ExpiredIn(procs[p].pre, Key(procs[p].names[1])))
        => LET task == procs[p].tasks[1]
           IN /\ task.log[1] = "cache_expired"
              /\ "cache_hit" \notin TaskEvents(task)
              /\ \/ task.pc = "db_lookup"
                 \/ Len(task.log) >= 2 /\ task.log[2] \in StoreQueryEvents

\* the record read from the Store at time 0 was looked up again two hours later:
\* the cache missed it and the Store answered again
C11_StoreAnsweredAfterExpiry ==
    \E p \in ProcIds :
        /\ FinishedLookup(procs[p])
        /\ prev.op = "gpi"
        /\ Key(prev.names[1]) = Key(procs[p].names[1])
        /\ prev.events \cap StoreHitEvents # {}
        /\ ~prev.cleared
        /\ procs[p].pre.now - prev.t0 > CacheDuration
        /\ ExpiredIn(procs[p].pre, Key(procs[p].names[1]))
        /\ procs[p].tasks[1].log[1] = "cache_expired"
        /\ "db_hit_exact" \in Events(procs[p])
        /\ Returned(procs[p]) = prev.result

UpperChar(c) ==
    CASE c = "k" -> "K"
      [] c = "c" -> "C"
      [] c = "l" -> "L"
      [] c = "x" -> "X"
      [] OTHER -> c

RECURSIVE Upper(_)
Upper(s) == IF s = <<>> THEN <<>> ELSE <<UpperChar(Head(s))>> \o Upper(Tail(s))

\* a name in other letter cases and with whitespace around it
Spellings(name) ==
    LET bare == Strip(name)
        cased == {bare, Lower(bare), Upper(bare)}
    IN UNION {{s, <<" ">> \o s, s \o <<" ">>, <<" ">> \o s \o <<" ">>} : s \in cased}

\* the coroutine called cache.store in the step
StoredNow(old, new) ==
    /\ old.name = new.name
    /\ "cache_store" \in TaskEvents(new)
    /\ "cache_store" \notin TaskEvents(old)

\* a get of the name at each age up to the TTL returns the record
ServedWithinTTL(c, ts, t, name, record) ==
    \A age \in 0..CacheDuration : CacheGet(c, ts, t + age, name).ret = record

\* C12: right after cache.store(name, record) - in get_plant_info, for a Store hit
\* or a generated record, and in the batch loop of get_multiple_plants - a get by
\* any spelling (letter case, surrounding whitespace) of the name the caller used
\* or of the record's own name returns that record, at every age up to the TTL.
C12_StoredUnderBothAliases ==
    [][\A p \in ProcIds :
        /\ \A i \in 1..Len(procs'[p].tasks) :
              (i <= Len(procs[p].tasks) /\ StoredNow(procs[p].tasks[i], procs'[p].tasks[i]))
              => LET task == procs'[p].tasks[i]
                     record == IF task.hold # None THEN task.hold ELSE task.ret
                 IN \A alias \in Spellings(task.name) \cup Spellings(record.name) :
                       ServedWithinTTL(cache', timestamps', now', alias, record)
        /\ (procs[p].pc = "batch_commit" /\ procs'[p].log = <<"db_batch">>)
              => LET rows == procs[p].rows
                 IN \A k \in 1..Len(rows) :
                       (\A j \in (k + 1)..Len(rows) : Key(rows[j].name) # Key(rows[k].name))
                       => \A alias \in Spellings(rows[k].name) :
                             ServedWithinTTL(cache', timestamps', now', alias,
                                             ModelToPlantInfo(rows[k]))]_vars

\* "C" was looked up and answered by the row "CK": the cache serves that record
\* under "c" and under "ck", to " ck " as well
C12_PartialHitUnderBothKeys ==
    \E p \in ProcIds :
        /\ FinishedLookup(procs[p])
        /\ procs[p].names = <<NameC>>
        /\ "db_hit_partial" \in Events(procs[p])
        /\ Returned(procs[p]) = <<PlantInfo(NameCK, 60)>>
        /\ Key(NameC) # Key(NameCK)
        /\ {Key(NameC), Key(NameCK)} \subseteq DOMAIN cache
        /\ CacheGet(cache, timestamps, now, <<" ", "c", "k", " ">>).ret = PlantInfo(NameCK, 60)
        /\ CacheGet(cache, timestamps, now, <<"c", " ">>).ret = PlantInfo(NameCK, 60)

----------------------------------------------------------------------------------------------------------------------------------------
(* Requests served concurrently: the service object is shared by the coroutines of
   all requests in flight on the event loop *)

Namexl == <<"x", "l">>

\* the requests, numbered in their order of arrival
Arrival == <<"r1", "r2", "r3">>

\* the request is the next to arrive
NextToArrive(p) ==
    /\ procs[p].op = "idle"
    /\ \E k \in 1..Len(Arrival) :
          /\ Arrival[k] = p
          /\ \A j \in 1..(k - 1) : procs[Arrival[j]].op # "idle"

\* the state after startup, with the given requests to come: tables created and
\* seeded, refresh_database_status done
Started(requests) ==
    /\ cache = EmptyMap
    /\ timestamps = EmptyMap
    /\ now = 0
    /\ db = InitialStore
    /\ dbManager = TRUE
    /\ dbAvailable = "True"
    /\ dbChecked = TRUE
    /\ dbFaults = FALSE
    /\ llm = Answering
    /\ ext = NoExtraction
    /\ turn = NoTurn
    /\ procs = [p \in requests |-> NoProc]
    /\ prev = NoCall
    /\ ncalls = 0
    /\ plan = NoPlan

\* a request calls get_plant_info while others may be in flight
ConcGetPlantInfo(p, plant_name) ==
    /\ NextToArrive(p)
    /\ LET s == GpiStart(cache, timestamps, now, dbAvailable, dbChecked, dbManager,
                         NewTask(plant_name))
       IN /\ cache' = s.cache
          /\ timestamps' = s.timestamps
          /\ dbAvailable' = s.avail
          /\ dbChecked' = s.checked
          /\ procs' = [procs EXCEPT ![p] =
                [NoProc EXCEPT !.op = "gpi", !.names = <<plant_name>>,
                               !.tasks = <<s.task>>, !.pre = Snapshot]]
    /\ UNCHANGED <<db, envVars, histVars, plan>>

\* a request calls get_multiple_plants while others may be in flight
ConcGetMultiplePlants(p, plant_names) ==
    /\ NextToArrive(p)
    /\ GmpStart(p, plant_names)
    /\ UNCHANGED <<db, envVars, histVars, plan>>

\* time passes while requests are in flight
Elapse ==
    /\ DOMAIN cache # {}
    /\ now < MaxTime
    /\ now' = now + 1
    /\ UNCHANGED <<cacheVars, db, dbManager, dbFaults, llm, ext, turn, latchVars, procs, histVars,
                 plan>>

\* Two requests in flight, each a get_plant_info for a spelling of a name the Store
\* does not hold
NextConc ==
    \/ \E p \in ProcIds, name \in {NameXL, Namexl} : ConcGetPlantInfo(p, name)
    \/ \E p \in ProcIds : \E i \in 1..Len(procs[p].tasks) : TaskDbLookup(p, i)
    \/ \E p \in ProcIds : \E i \in 1..Len(procs[p].tasks) : TaskIncrSelect(p, i)
    \/ \E p \in ProcIds : \E i \in 1..Len(procs[p].tasks) : TaskIncrCommit(p, i)
    \/ \E p \in ProcIds : \E i \in 1..Len(procs[p].tasks) : TaskLlm(p, i)
    \/ \E p \in ProcIds : \E i \in 1..Len(procs[p].tasks) : TaskStoreSelect(p, i)
    \/ \E p \in ProcIds : \E i \in 1..Len(procs[p].tasks) : TaskStoreCommit(p, i)
    \/ Elapse

SpecConc == Started({"r1", "r2"}) /\ [][NextConc]_vars

\* One get_multiple_plants whose tier 3 gathers the coroutines of two names
NextGather ==
    \/ \E p \in ProcIds, names \in {<<NameXL, Namexl>>, <<NameK, NameXL>>} :
          ConcGetMultiplePlants(p, names)
    \/ \E p \in ProcIds : \E i \in 1..Len(procs[p].tasks) : TaskStep(p, i)
    \/ \E p \in ProcIds : GmpBatchSelect(p)
    \/ \E p \in ProcIds : GmpBatchCommit(p)
    \/ \E p \in ProcIds : GmpCollect(p)
    \/ Elapse

SpecGather == Started({"r1"}) /\ [][NextGather]_vars

\* Three requests in flight for spellings of one stored name, as lookups or batches
NextUsage ==
    \/ \E p \in ProcIds, name \in {NameK, NameKsp} : ConcGetPlantInfo(p, name)
    \/ \E p \in ProcIds, names \in {<<NameK>>} : ConcGetMultiplePlants(p, names)
    \/ \E p \in ProcIds : \E i \in 1..Len(procs[p].tasks) : TaskDbLookup(p, i)
    \/ \E p \in ProcIds : \E i \in 1..Len(procs[p].tasks) : TaskIncrSelect(p, i)
    \/ \E p \in ProcIds : \E i \in 1..Len(procs[p].tasks) : TaskIncrCommit(p, i)
    \/ \E p \in ProcIds : GmpBatchSelect(p)
    \/ \E p \in ProcIds : GmpBatchCommit(p)
    \/ Elapse

SpecUsage == Started({"r1", "r2", "r3"}) /\ [][NextUsage]_vars

----------------------------------------------------------------------------
(* Properties of the resolver under concurrency *)

\* every coroutine of get_plant_info of the run
AllTasks ==
    UNION {{procs[p].tasks[i] : i \in 1..Len(procs[p].tasks)} : p \in ProcIds}

\* C13: at every point of a run the plants table holds no two rows whose names are
\* equal after trimming and case folding, every row written by the resolver carries
\* the name of the record a coroutine stored, and the seeded rows keep their names.
C13_StoreNamesUnique ==
    /\ \A r1, r2 \in db : Key(r1.name) = Key(r2.name) => r1 = r2
    /\ \A r \in db :
          r.source = "llm"
          => \E task \in AllTasks :
                /\ "db_insert" \in TaskEvents(task)
                /\ task.hold.name = r.name
    /\ \A s \in InitialStore : \E r \in db : r.name = s.name /\ r.source = "static"

\* the state that refutes C13: get_multiple_plants(["XL", "xl"]) has returned; each
\* of the two gathered coroutines found no existing row and inserted the record
\* generated under its own spelling, and the table holds both rows
C13_TwoSpellingsInserted ==
    \E p \in ProcIds :
        /\ FinishedBatch(procs[p])
        /\ procs[p].names = <<NameXL, Namexl>>
        /\ \A i \in 1..2 : "db_insert" \in TaskEvents(procs[p].tasks[i])
        /\ \E r1, r2 \in db :
              /\ r1.name = NameXL
              /\ r2.name = Namexl
              /\ Key(r1.name) = Key(r2.name)

\* C14: the usage counter of a row of the plants table never goes down: in every
\* step, each row that is still in the table has a counter at least as large as
\* before.
C14_UsageNeverDecreases ==
    [][\A r \in db : \A r2 \in db' : r2.name = r.name => r2.usage >= r.usage]_vars

\* the state before the step that refutes C14: a coroutine of _increment_usage_count
\* read the counter of "K" at 1 and is about to commit 2, while two other requests
\* have meanwhile brought the stored counter to 3
C14_StaleIncrementPending ==
    \E task \in AllTasks :
        /\ task.pc = "incr_commit"
        /\ task.tgt = NameK
        /\ task.upd = 2
        /\ \E r \in db : r.name = NameK /\ r.usage = 3

\* every slot of the cache has its entry and its timestamp
SlotsWhole == DOMAIN cache = DOMAIN timestamps

\* C15: under every interleaving of the coroutines of concurrent requests the
\* entry map and the timestamp map of the cache have the same keys, in the
\* initial state and after every step, and a step in which a coroutine stores a
\* record leaves that record, stamped with the time of the store, in the slots of
\* the requested key and of the record's key, whatever an earlier store put there.
C15_CacheSafeUnderConcurrency ==
    /\ SlotsWhole
    /\ [][/\ SlotsWhole'
          /\ \A p \in ProcIds : \A i \in 1..Len(procs'[p].tasks) :
                (i <= Len(procs[p].tasks) /\ StoredNow(procs[p].tasks[i], procs'[p].tasks[i]))
                => LET task == procs'[p].tasks[i]
                       record == IF task.hold # None THEN task.hold ELSE task.ret
                   IN \A key \in {Key(task.name), Key(record.name)} :
                         /\ cache'[key] = record
                         /\ timestamps'[key] = now']_vars

\* two requests in flight generated different records for one key and both stored
\* them, one at time 0 and one an hour later: the slot holds the later record
C15_LastStoreWins ==
    /\ SlotsWhole
    /\ LET t1 == procs["r1"].tasks[1]
           t2 == procs["r2"].tasks[1]
       IN /\ FinishedLookup(procs["r1"]) /\ FinishedLookup(procs["r2"])
          /\ Key(t1.name) = Key(t2.name)
          /\ "cache_store" \in TaskEvents(t1)
          /\ "cache_store" \in TaskEvents(t2)
          /\ "cache_hit" \notin TaskEvents(t1) \cup TaskEvents(t2)
          /\ t1.ret = PlantInfo(NameXL, 90)
          /\ t2.ret = PlantInfo(Namexl, 90)
          /\ timestamps[Key(NameXL)] = 1
          /\ cache[Key(NameXL)] \in {t1.ret, t2.ret}

----------------------------------------------------------------------------
(* Properties of the sections of the plan, under SpecPlan *)

\* C16: once a plant is resolved, a section response of the wrong shape never makes
\* create_garden_plan fail: no execution that met one ends with an exception.
C16_WrongShapeContained ==
    (plan.misshapen /\ plan.plant_information # <<>>) => plan.pc # "failed"

\* the state that refutes C16: schedules and instructions were generated, the tips
\* response was an array of objects, and create_garden_plan ended with the
\* ValidationError of GardenPlan
C16_TipsObjectsRaise ==
    /\ plan.pc = "failed"
    /\ plan.error = "ValidationError"
    /\ plan.misshapen
    /\ plan.plant_information # <<>>
    /\ Len(plan.growing_instructions) = Len(plan.plant_information)
    /\ \A j \in 1..Len(plan.planting_schedules) : plan.planting_schedules[j].by = "llm"
    /\ plan.calls[Len(plan.calls)] = "tips"
    /\ ~plan.saved

\* the instructions list answers the resolved plants one to one, in order
EntryPerPlant ==
    /\ Len(plan.growing_instructions) = Len(plan.plant_information)
    /\ \A j \in 1..Len(plan.growing_instructions) :
          plan.growing_instructions[j].subject = plan.plant_information[j].name

\* C17: every turn of the instructions loop appends exactly one entry, the one
\* built for the next resolved plant, and leaves the entries of the plants before
\* it as they are; a fallback entry is the default of that very plant; the loop
\* never fails and ends when every plant has its entry; the later steps do not
\* touch the list, so from the layout step on entry i belongs to resolved plant i.
C17_OneEntryPerPlant ==
    [][LET list == plan.growing_instructions
           after == plan'.growing_instructions
           plants == plan.plant_information
       IN /\ (plan.pc = "instructions" /\ plan' # plan)
             => /\ Len(after) = Len(list) + 1
                /\ SubSeq(after, 1, Len(list)) = list
                /\ after[Len(after)].subject = plants[Len(after)].name
                /\ after[Len(after)].by = "enhanced_default"
                      => after[Len(after)] =
                             CreateEnhancedDefaultInstructions(plants[Len(after)])
                /\ plan'.plant_information = plants
                /\ plan'.pc = (IF Len(after) = Len(plants) THEN "layout" ELSE "instructions")
          /\ (plan.pc \in {"layout", "tips"} /\ plan'.pc # "idle")
             => (after = list /\ plan'.plant_information = plants)
          /\ plan'.pc \in {"layout", "tips", "done"} => EntryPerPlant']_vars

\* a plan of two plants was returned in which the first plant's instructions are
\* its default, after a failed generation, and the second plant's are the generated
\* ones
C17_FailureOfOnePlantOnly ==
    /\ plan.pc = "done"
    /\ Len(plan.plant_information) = 2
    /\ EntryPerPlant
    /\ plan.growing_instructions[1] =
           CreateEnhancedDefaultInstructions(plan.plant_information[1])
    /\ plan.growing_instructions[2].by = "llm"
    /\ plan.growing_instructions[2].plant_name = plan.plant_information[2].name
    /\ plan.plant_information[1].name # plan.plant_information[2].name

\* the parsed responses the generator can give for the instructions of the plants
\* resolved for the plan at hand, each with the entry the loop turn builds from it
ParsedInstructions ==
    UNION {{[plant |-> plan.plant_information[j], response |-> r,
             entry |-> GenerateGrowingInstruction(plan.plant_information[j], r)] :
               r \in {x \in InstructionResponses(plan.plant_information[j]) :
                         x.kind = "instruction_data"}} :
           j \in 1..Len(plan.plant_information)}

\* the lists _enhance_basic_instructions leaves as the response gave them
KeptCategories == InstructionCategories \ EnhancedCategories

StageOrder == <<"location", "entities", "sections", "assembled", "persisted", "done">>

\* the generative calls of the sections, in their order
CallOrder == <<"schedules", "instructions", "layout", "tips">>

IsPrefix(s, t) == Len(s) <= Len(t) /\ SubSeq(t, 1, Len(s)) = s

\* the position of an element in a sequence without repetitions
Rank(x, order) == CHOOSE k \in 1..Len(order) : order[k] = x

\* the sequence lists elements of the order, in that order
Ascending(s, order) ==
    /\ \A j \in 1..Len(s) : InSeq(s[j], order)
    /\ \A i, j \in 1..Len(s) : i < j => Rank(s[i], order) <= Rank(s[j], order)

Count(x, s) == Cardinality({j \in 1..Len(s) : s[j] = x})

\* the stages passed are the fixed ones in their order, none twice, persistence
\* being optional, or the failed resolution right after the location
StagesInOrder(stages) ==
    \/ stages = <<"location", "failed">>
    \/ /\ Ascending(stages, StageOrder)
       /\ \A k \in 1..Len(StageOrder) : Count(StageOrder[k], stages) <= 1
       /\ \A k \in 1..Len(StageOrder) :
             (InSeq(StageOrder[k], stages) /\ StageOrder[k] # "done")
             => \A j \in 1..(k - 1) :
                   StageOrder[j] # "persisted" => InSeq(StageOrder[j], stages)
       /\ InSeq("done", stages) => InSeq("assembled", stages)

\* the generative calls issued: in section order, one per section and one per
\* resolved plant for the instructions
CallsOnce(p) ==
    /\ Ascending(p.calls, CallOrder)
    /\ Count("schedules", p.calls) <= 1
    /\ Count("layout", p.calls) <= 1
    /\ Count("tips", p.calls) <= 1
    /\ Count("instructions", p.calls) <= Len(p.plant_information)
    /\ p.calls # <<>> => InSeq("entities", p.stages)
    /\ InSeq("sections", p.stages) => Count("tips", p.calls) = 1

\* C19: within one execution of create_garden_plan the stages passed and the
\* generative calls issued only grow, by steps that keep the fixed order location,
\* entities (or failed), sections, assembled, persisted, done; each section has
\* called the generator at most once, the instructions at most once per resolved
\* plant, so that no failed call is ever repeated; a finished execution has passed
\* every stage up to done, persistence apart, and a failed one has stopped.
C19_StagesInFixedOrder ==
    [][/\ StagesInOrder(plan'.stages)
       /\ CallsOnce(plan')
       /\ plan'.pc # "idle"
             => IsPrefix(plan.stages, plan'.stages) /\ IsPrefix(plan.calls, plan'.calls)
       /\ plan'.pc = "done" => InSeq("done", plan'.stages)
       /\ plan.pc = "failed" => (plan' = plan \/ plan'.pc = "idle")
       /\ (plan'.pc \in {"instructions", "layout", "tips", "done"})
             => Count("schedules", plan'.calls) = 1
       /\ (plan'.pc \in {"layout", "tips", "done"})
             => Count("instructions", plan'.calls) = Len(plan'.plant_information)]_vars

\* a plan of two plants was returned after every generative call of the sections
\* had gone unanswered but the schedules one: each call was issued once, the
\* fallbacks took over, and the execution went through every stage
C19_FallbacksWithoutRetry ==
    /\ plan.pc = "done"
    /\ plan.stages = StageOrder
    /\ plan.calls = <<"schedules", "instructions", "instructions", "layout", "tips">>
    /\ \A j \in 1..2 : plan.growing_instructions[j].by = "enhanced_default"
    /\ plan.layout_recommendations.by = "default"
    /\ plan.general_tips.by = "default"

----------------------------------------------------------------------------
(* Termination: one request served by a provider that may never answer *)

\* a request calls create_garden_plan
ConcCreateGardenPlan(p, selected_plants) ==
    /\ NextToArrive(p)
    /\ plan.pc = "idle"
    /\ GmpStart(p, selected_plants)
    /\ plan' = [NoPlan EXCEPT !.pc = "resolving", !.request = selected_plants,
                              !.proc = p, !.stages = <<"location">>]
    /\ UNCHANGED <<db, envVars, histVars>>

\* the state after startup under either provider, answering or not
StartedLive ==
    /\ cache = EmptyMap
    /\ timestamps = EmptyMap
    /\ now = 0
    /\ db = InitialStore
    /\ dbManager = TRUE
    /\ dbAvailable = "True"
    /\ dbChecked = TRUE
    /\ dbFaults = FALSE
    /\ llm \in [provider : Providers, answers : BOOLEAN]
    /\ ext = NoExtraction
    /\ turn = NoTurn
    /\ procs = [p \in {"r1"} |-> NoProc]
    /\ prev = NoCall
    /\ ncalls = 0
    /\ plan = NoPlan

\* the request arrives
Arrive ==
    \/ \E p \in ProcIds, name \in {NameK, NameXL} : ConcGetPlantInfo(p, name)
    \/ \E p \in ProcIds, selected_plants \in {<<NameK, NameXL>>, <<NameXL>>} :
          ConcCreateGardenPlan(p, selected_plants)

\* an await of the request returns and its coroutine runs on to the next await
Resume ==
    \/ \E p \in ProcIds : \E i \in 1..Len(procs[p].tasks) : TaskStep(p, i)
    \/ \E p \in ProcIds : GmpBatchSelect(p)
    \/ \E p \in ProcIds : GmpBatchCommit(p)
    \/ \E p \in ProcIds : GmpCollect(p)
    \/ \E p \in ProcIds : PlanResolved(p)
    \/ PlanSchedules
    \/ PlanInstructions
    \/ PlanLayout
    \/ PlanTips
    \/ PlanReturn

NextLive == Arrive \/ Resume

\* the event loop resumes a coroutine whose await has returned; the database
\* answers every statement
SpecLive == StartedLive /\ [][NextLive]_vars /\ WF_vars(Resume)

\* C20: under fairness of the event loop every get_plant_info that was called
\* returns and every create_garden_plan that was called returns a plan or raises,
\* whichever provider is configured and whether or not the provider ever answers.
C20_EveryCallCompletes ==
    /\ (procs["r1"].op = "gpi") ~> Done(procs["r1"])
    /\ (plan.pc = "resolving") ~> (plan.pc \in {"done", "failed"})

\* the state that refutes C20: the provider is ollama and does not answer, the
\* request awaits the generator and nothing can resume it
C20_OllamaNeverReturns ==
    /\ llm = [provider |-> "ollama", answers |-> FALSE]
    /\ \/ plan.pc = "schedules"
       \/ procs["r1"].op = "gpi" /\ procs["r1"].tasks[1].pc = "llm"
    /\ ~ENABLED Resume

----------------------------------------------------------------------------
(* Persistence of the assembled plan *)

\* the sections of the GardenPlan that create_garden_plan returns
GardenPlanOf(p) ==
    [plant_information |-> p.plant_information,
     planting_schedules |-> p.planting_schedules,
     growing_instructions |-> p.growing_instructions,
     layout_recommendations |-> p.layout_recommendations,
     general_tips |-> p.general_tips]

\* C21: the last step of create_garden_plan ends as the answer to the tips prompt
\* alone decides: with a valid GardenPlan it returns that plan, whose sections are
\* those generated before plus the tips, whether or not the plan was written to
\* disk, and it raises nothing; a failed write never makes the call fail.
C21_PersistenceBestEffort ==
    [][plan.pc = "tips" /\ plan'.pc # "tips"
       => \E response \in Generated(TipsResponses) :
             LET general_tips == GenerateGeneralTips(response)
             IN IF GardenPlanValid(general_tips)
                THEN /\ plan'.pc = "done"
                     /\ plan'.error = "none"
                     /\ GardenPlanOf(plan') =
                           [GardenPlanOf(plan) EXCEPT !.general_tips = general_tips]
                ELSE /\ plan'.pc = "failed"
                     /\ plan'.error = "ValidationError"]_vars

\* a plan with generated tips was returned although it could not be written
C21_ReturnedUnsaved ==
    /\ plan.pc = "done"
    /\ ~plan.saved
    /\ plan.error = "none"
    /\ plan.general_tips.by = "llm"
    /\ Len(plan.growing_instructions) = Len(plan.plant_information)
    /\ "persisted" \notin {plan.stages[k] : k \in 1..Len(plan.stages)}

----------------------------------------------------------------------------
(* The resolver while operations of the database fail *)

\* the state after startup, with a database whose operations may raise
StartedFaulty ==
    /\ cache = EmptyMap
    /\ timestamps = EmptyMap
    /\ now = 0
    /\ db = InitialStore
    /\ dbManager = TRUE
    /\ dbAvailable = "True"
    /\ dbChecked = TRUE
    /\ dbFaults = TRUE
    /\ llm = Answering
    /\ ext = NoExtraction
    /\ turn = NoTurn
    /\ procs = [p \in {"r1"} |-> NoProc]
    /\ prev = NoCall
    /\ ncalls = 0
    /\ plan = NoPlan

NextFaults ==
    \/ \E p \in ProcIds, name \in {NameK, NameXL} : ConcGetPlantInfo(p, name)
    \/ \E p \in ProcIds, names \in {<<NameK, NameXL>>} : ConcGetMultiplePlants(p, names)
    \/ \E p \in ProcIds : \E i \in 1..Len(procs[p].tasks) : TaskStep(p, i)
    \/ \E p \in ProcIds : GmpBatchSelect(p)
    \/ \E p \in ProcIds : GmpBatchCommit(p)
    \/ \E p \in ProcIds : GmpCollect(p)

SpecFaults == StartedFaulty /\ [][NextFaults]_vars

LlmEvents == {"llm_none", "llm_garbage", "llm_null", "llm_invalid", "llm_object"}

\* in a coroutine of get_plant_info that has returned, the k-th event is a failed
\* operation of the database and the coroutine went on as after a miss: a failed
\* lookup was followed by the call of the generator, a failed increment left the
\* plant found to be returned, a failed write left the generated plant to be cached
\* and returned
Degraded(task, k) ==
    \/ /\ k > 1 /\ task.log[k - 1] \in {"cache_miss", "cache_expired"}
       /\ k < Len(task.log) /\ task.log[k + 1] \in LlmEvents
    \/ /\ k > 2 /\ task.log[k - 1] = "cache_store"
       /\ task.log[k - 2] \in {"db_hit_exact", "db_hit_partial"}
       /\ k = Len(task.log)
       /\ task.ret # None /\ task.ret = task.hold
    \/ /\ k > 1 /\ task.log[k - 1] = "llm_ok"
       /\ k + 1 = Len(task.log) /\ task.log[k + 1] = "cache_store"
       /\ task.ret # None /\ task.ret = task.hold

\* C22: whichever operations of the database fail, a get_plant_info that has
\* returned went on to the next tier after each failure (generator after a failed
\* lookup, the found plant after a failed increment, the generated plant after a
\* failed write), and a get_multiple_plants whose batch query failed handed every
\* name the cache did not answer to tier 3 and returned what tier 3 resolved.
C22_StoreErrorsDegrade ==
    \A p \in ProcIds :
       /\ \A i \in 1..Len(procs[p].tasks) :
             LET task == procs[p].tasks[i]
             IN task.pc = "done"
                => \A k \in 1..Len(task.log) :
                      task.log[k] = "db_error" => Degraded(task, k)
       /\ procs[p].op = "gmp" /\ procs[p].pc = "done" /\ procs[p].log = <<"db_error">>
          => /\ [j \in 1..Len(procs[p].tasks) |-> procs[p].tasks[j].name]
                   = procs[p].remaining
             /\ procs[p].remaining # <<>>
             /\ procs[p].result = procs[p].plants \o Gathered(procs[p].tasks)

\* get_multiple_plants(["K", "XL"]) returned both plants although the batch query
\* failed, the lookup of one name failed and the write of the generated plant failed
C22_ResolvedDespiteErrors ==
    \E p \in ProcIds :
       /\ procs[p].op = "gmp" /\ procs[p].pc = "done" /\ procs[p].log = <<"db_error">>
       /\ Len(procs[p].result) = 2
       /\ \E i \in 1..Len(procs[p].tasks) :
             LET task == procs[p].tasks[i]
             IN \E k \in 2..Len(task.log) :
                   /\ task.log[k] = "db_error" /\ task.log[k - 1] = "llm_ok"
                   /\ \E j \in 1..k : task.log[j] = "db_error"
                                      /\ task.log[j + 1] \in LlmEvents

----------------------------------------------------------------------------
(* Text: the responses of the generator as sequences of characters *)

Quote == "\""
\* the grave accent of a code fence, written as a token
Backtick == "<grave>"
Apostrophe == "'"
Backslash == "\\"
Newline == "\n"

\* str.isspace over the characters of the model
Whitespace == {" ", Newline, "\t", "\r"}

UpperLetters ==
    <<"A", "B", "C", "D", "E", "F", "G", "H", "I", "J", "K", "L", "M",
      "N", "O", "P", "Q", "R", "S", "T", "U", "V", "W", "X", "Y", "Z">>

LowerLetters ==
    <<"a", "b", "c", "d", "e", "f", "g", "h", "i", "j", "k", "l", "m",
      "n", "o", "p", "q", "r", "s", "t", "u", "v", "w", "x", "y", "z">>

Digits == {"0", "1", "2", "3", "4", "5", "6", "7", "8", "9"}

Range(s) == {s[k] : k \in 1..Len(s)}

\* \w of the re module
WordChars == Range(UpperLetters) \cup Range(LowerLetters) \cup Digits \cup {"_"}

\* str.lower
TextLowerChar(c) ==
    IF c \in Range(UpperLetters)
    THEN LowerLetters[CHOOSE k \in 1..Len(UpperLetters) : UpperLetters[k] = c]
    ELSE c

TextLower(s) == [k \in 1..Len(s) |-> TextLowerChar(s[k])]

\* str.upper
TextUpperChar(c) ==
    IF c \in Range(LowerLetters)
    THEN UpperLetters[CHOOSE k \in 1..Len(LowerLetters) : LowerLetters[k] = c]
    ELSE c

TextUpper(s) == [k \in 1..Len(s) |-> TextUpperChar(s[k])]

\* s[i:] and s[:j] with 1-based positions: From(s, i) starts at position i
From(s, i) == SubSeq(s, i, Len(s))
Upto(s, j) == SubSeq(s, 1, j)

\* str.strip
TextStrip(s) ==
    LET inner == {k \in 1..Len(s) : s[k] \notin Whitespace}
    IN IF inner = {} THEN <<>>
       ELSE SubSeq(s, CHOOSE k \in inner : \A j \in inner : k <= j,
                      CHOOSE k \in inner : \A j \in inner : k >= j)

StartsWith(s, prefix) == Len(prefix) <= Len(s) /\ Upto(s, Len(prefix)) = prefix
EndsWith(s, suffix) ==
    Len(suffix) <= Len(s) /\ From(s, Len(s) - Len(suffix) + 1) = suffix

\* str.find and str.rfind of one character, 1-based, 0 when absent
Find(s, c) ==
    IF c \in Range(s) THEN CHOOSE k \in 1..Len(s) : s[k] = c /\ \A j \in 1..(k - 1) : s[j] # c
    ELSE 0

RFind(s, c) ==
    IF c \in Range(s)
    THEN CHOOSE k \in 1..Len(s) : s[k] = c /\ \A j \in (k + 1)..Len(s) : s[j] # c
    ELSE 0

\* the first position at or after i where sub occurs in s, 0 when there is none
FindFrom(s, sub, i) ==
    LET at == {k \in i..(Len(s) - Len(sub) + 1) : SubSeq(s, k, k + Len(sub) - 1) = sub}
    IN IF at = {} THEN 0 ELSE CHOOSE k \in at : \A j \in at : k <= j

\* for prefix in prefixes: if cleaned.lower().startswith(prefix.lower()):
\*     cleaned = cleaned[len(prefix):].strip()
RECURSIVE RemovePrefixes(_, _)
RemovePrefixes(cleaned, prefixes) ==
    IF prefixes = <<>> THEN cleaned
    ELSE LET prefix == Head(prefixes)
         IN RemovePrefixes(
                IF StartsWith(TextLower(cleaned), TextLower(prefix))
                THEN TextStrip(From(cleaned, Len(prefix) + 1))
                ELSE cleaned,
                Tail(prefixes))

\* for suffix in suffixes: if cleaned.lower().endswith(suffix.lower()):
\*     cleaned = cleaned[:-len(suffix)].strip()
RECURSIVE RemoveSuffixes(_, _)
RemoveSuffixes(cleaned, suffixes) ==
    IF suffixes = <<>> THEN cleaned
    ELSE LET suffix == Head(suffixes)
         IN RemoveSuffixes(
                IF EndsWith(TextLower(cleaned), TextLower(suffix))
                THEN TextStrip(Upto(cleaned, Len(cleaned) - Len(suffix)))
                ELSE cleaned,
                Tail(suffixes))

\* prefixes_to_remove of _extract_and_clean_json
prefixes_to_remove ==
    <<
      <<"H", "e", "r", "e", Apostrophe, "s", " ", "t", "h", "e", " ", "J", "S", "O", "N",
        ":">>,
      <<"H", "e", "r", "e", " ", "i", "s", " ", "t", "h", "e", " ", "J", "S", "O", "N",
        ":">>,
      <<Backtick, Backtick, Backtick, "j", "s", "o", "n">>,
      <<Backtick, Backtick, Backtick>>,
      <<"J", "S", "O", "N", ":">>,
      <<"R", "e", "s", "p", "o", "n", "s", "e", ":">>,
      <<"H", "e", "r", "e", Apostrophe, "s", " ", "t", "h", "e", " ", "d", "e", "t", "a", "i",
        "l", "e", "d", " ", "i", "n", "f", "o", "r", "m", "a", "t", "i", "o", "n",
        ":">>,
      <<"H", "e", "r", "e", " ", "a", "r", "e", " ", "t", "h", "e", " ", "i", "n", "s",
        "t", "r", "u", "c", "t", "i", "o", "n", "s", ":">>
    >>

\* suffixes_to_remove of _extract_and_clean_json
suffixes_to_remove ==
    <<
      <<Backtick, Backtick, Backtick>>,
      <<"L", "e", "t", " ", "m", "e", " ", "k", "n", "o", "w", " ", "i", "f", " ", "y",
        "o", "u", " ", "n", "e", "e", "d", " ", "m", "o", "r", "e", " ", "d", "e", "t",
        "a", "i", "l", "s", "!">>,
      <<"I", " ", "h", "o", "p", "e", " ", "t", "h", "i", "s", " ", "h", "e", "l", "p",
        "s", "!">>
    >>

\* prefixes_to_remove of _extract_and_clean_json_universal
prefixes_to_remove_universal ==
    <<
      <<"H", "e", "r", "e", Apostrophe, "s", " ", "t", "h", "e", " ", "J", "S", "O", "N",
        ":">>,
      <<"H", "e", "r", "e", " ", "i", "s", " ", "t", "h", "e", " ", "J", "S", "O", "N",
        ":">>,
      <<"H", "e", "r", "e", " ", "a", "r", "e", " ", "t", "h", "r", "e", "e", " ", "g",
        "a", "r", "d", "e", "n", "i", "n", "g", " ", "t", "i", "p", "s", " ", "f", "o",
        "r", " ", "t", "o", "m", "a", "t", "o", "e", "s", ":">>,
      <<"H", "e", "r", "e", " ", "a", "r", "e">>,
      <<Backtick, Backtick, Backtick, "j", "s", "o", "n">>,
      <<Backtick, Backtick, Backtick>>,
      <<"J", "S", "O", "N", ":">>,
      <<"R", "e", "s", "p", "o", "n", "s", "e", ":">>,
      <<"H", "e", "r", "e", Apostrophe, "s", " ", "t", "h", "e", " ", "d", "e", "t", "a", "i",
        "l", "e", "d", " ", "i", "n", "f", "o", "r", "m", "a", "t", "i", "o", "n",
        ":">>,
      <<"H", "e", "r", "e", " ", "a", "r", "e", " ", "t", "h", "e", " ", "i", "n", "s",
        "t", "r", "u", "c", "t", "i", "o", "n", "s", ":">>,
      <<"H", "e", "r", "e", Apostrophe, "s", " ", "y", "o", "u", "r">>,
      <<"B", "a", "s", "e", "d", " ", "o", "n">>,
      <<"F", "o", "r", " ", "y", "o", "u", "r", " ", "g", "a", "r", "d", "e", "n">>
    >>

Backticks == <<Backtick, Backtick, Backtick>>

\* the last position of the run of whitespace that starts at position i of s;
\* i - 1 when there is none
WhitespaceRun(s, i) ==
    LET stops == {k \in i..Len(s) : s[k] \notin Whitespace}
    IN IF stops = {} THEN Len(s) ELSE (CHOOSE k \in stops : \A j \in stops : k <= j) - 1

\* the first re.sub of _extract_and_clean_json_universal (opening fence with the
\* word json at the start of a line, IGNORECASE and MULTILINE), from position i on:
\* the marker goes with the whitespace that follows it
RECURSIVE RemoveFenceOpen(_, _)
RemoveFenceOpen(s, i) ==
    IF i > Len(s) THEN <<>>
    ELSE IF /\ i = 1 \/ s[i - 1] = Newline
            /\ i + 6 <= Len(s)
            /\ TextLower(SubSeq(s, i, i + 6)) = Backticks \o <<"j", "s", "o", "n">>
         THEN RemoveFenceOpen(s, WhitespaceRun(s, i + 7) + 1)
         ELSE <<s[i]>> \o RemoveFenceOpen(s, i + 1)

\* where a match of the closing fence ends whose backticks end before position b: at the end
\* of the text, or before the last newline of the whitespace that follows; 0 when
\* the whitespace is followed by other text on the same line
FenceCloseEnd(s, b) ==
    LET r == WhitespaceRun(s, b)
        before == {e \in (b - 1)..(r - 1) : s[e + 1] = Newline}
    IN IF r = Len(s) THEN r
       ELSE IF before = {} THEN 0
       ELSE CHOOSE e \in before : \A j \in before : e >= j

\* the second re.sub of _extract_and_clean_json_universal (an optional line break,
\* the closing fence, whitespace up to the end of a line, MULTILINE), from
\* position i on
RECURSIVE RemoveFenceClose(_, _)
RemoveFenceClose(s, i) ==
    IF i > Len(s) THEN <<>>
    ELSE LET at == IF s[i] = Newline /\ FindFrom(s, Backticks, i + 1) = i + 1 THEN i + 1
                   ELSE IF FindFrom(s, Backticks, i) = i THEN i
                   ELSE 0
             e == IF at = 0 THEN 0 ELSE FenceCloseEnd(s, at + 3)
         IN IF e = 0 THEN <<s[i]>> \o RemoveFenceClose(s, i + 1)
            ELSE RemoveFenceClose(s, e + 1)

\* Optional[str]
NoString == [found |-> FALSE, text |-> <<>>]
SomeString(s) == [found |-> TRUE, text |-> s]

\* one of the two loops of _extract_complete_json, at character i: the position
\* at which the count of opening brackets returns to zero, 0 when the text ends
\* before
RECURSIVE ScanRegion(_, _, _, _, _, _, _)
ScanRegion(text, open, close, i, count, in_string, escape_next) ==
    IF i > Len(text) THEN 0
    ELSE LET char == text[i] IN
         IF escape_next
         THEN ScanRegion(text, open, close, i + 1, count, in_string, FALSE)
         ELSE IF char = Backslash
         THEN ScanRegion(text, open, close, i + 1, count, in_string, TRUE)
         ELSE IF char = Quote
         THEN ScanRegion(text, open, close, i + 1, count, ~in_string, FALSE)
         ELSE IF in_string
         THEN ScanRegion(text, open, close, i + 1, count, in_string, FALSE)
         ELSE IF char = open
         THEN ScanRegion(text, open, close, i + 1, count + 1, in_string, FALSE)
         ELSE IF char = close
         THEN (IF count - 1 = 0 THEN i
               ELSE ScanRegion(text, open, close, i + 1, count - 1, in_string, FALSE))
         ELSE ScanRegion(text, open, close, i + 1, count, in_string, FALSE)

\* a variant that cuts from the first bracket to the end of the text, without a scan
\* for the matching bracket
ExtractCompleteJsonToEnd(text) ==
    LET array_start == Find(text, "[")
        object_start == Find(text, "{")
    IN IF array_start # 0 THEN SomeString(From(text, array_start))
       ELSE IF object_start # 0 THEN SomeString(From(text, object_start))
       ELSE NoString

\* GardenPlanService._extract_complete_json: the array that starts at the first
\* "[" of the text if it is closed, else the object that starts at the first "{"
ExtractCompleteJson(text) ==
    LET array_start == Find(text, "[")
        array_end == IF array_start = 0 THEN 0
                     ELSE ScanRegion(text, "[", "]", array_start, 0, FALSE, FALSE)
        object_start == Find(text, "{")
        object_end == IF object_start = 0 THEN 0
                      ELSE ScanRegion(text, "{", "}", object_start, 0, FALSE, FALSE)
    IN IF array_end # 0 THEN SomeString(SubSeq(text, array_start, array_end))
       ELSE IF object_end # 0 THEN SomeString(SubSeq(text, object_start, object_end))
       ELSE NoString

----------------------------------------------------------------------------
(* json.loads and json.dumps over the characters of the model *)

\* the nesting at which the decoder of json raises RecursionError; the interpreter's
\* limit, scaled down with the texts of the model
RecursionLimit == 3

\* parsed values: a tag, then the content
JNum(digits) == <<"num", digits>>
JStr(chars) == <<"str", chars>>
JLit(name) == <<"lit", name>>
JArr(items) == <<"arr", items>>
JObj(members) == <<"obj", members>>

Parsed(v, n) == [ok |-> TRUE, value |-> v, next |-> n, error |-> "none"]
Failed(e) == [ok |-> FALSE, value |-> <<>>, next |-> 0, error |-> e]

\* the first position at or after i that holds no whitespace
SkipWhitespace(s, i) == WhitespaceRun(s, i) + 1

\* the character a backslash escape of a JSON string stands for ("\b" and "\f"
\* stand for themselves as two-letter tokens); \uXXXX is outside the alphabet
Unescape(c) ==
    CASE c = Quote -> Quote
      [] c = Backslash -> Backslash
      [] c = "/" -> "/"
      [] c = "n" -> Newline
      [] c = "t" -> "\t"
      [] c = "r" -> "\r"
      [] c = "b" -> "<b>"
      [] c = "f" -> "<f>"
      [] OTHER -> "<invalid>"

\* py_scanstring from the character after the opening quote, strict: control
\* characters and unknown escapes are errors
RECURSIVE ScanString(_, _, _)
ScanString(s, i, chars) ==
    IF i > Len(s) THEN Failed("JSONDecodeError")
    ELSE IF s[i] = Quote THEN Parsed(JStr(chars), i + 1)
    ELSE IF s[i] \in {Newline, "\t", "\r"} THEN Failed("JSONDecodeError")
    ELSE IF s[i] = Backslash
    THEN (IF i + 1 > Len(s) \/ Unescape(s[i + 1]) = "<invalid>"
          THEN Failed("JSONDecodeError")
          ELSE ScanString(s, i + 2, Append(chars, Unescape(s[i + 1]))))
    ELSE ScanString(s, i + 1, Append(chars, s[i]))

\* NUMBER_RE, integers only: "0", or a run of digits that does not start with "0"
ScanNumber(s, i) ==
    LET stops == {k \in i..Len(s) : s[k] \notin Digits}
        last == IF s[i] = "0" THEN i
                ELSE IF stops = {} THEN Len(s)
                ELSE (CHOOSE k \in stops : \A j \in stops : k <= j) - 1
    IN Parsed(JNum(SubSeq(s, i, last)), last + 1)

\* d[key] = value of a dict that keeps insertion order
ObjPut(members, key, value) ==
    IF \E k \in 1..Len(members) : members[k][1] = key
    THEN [k \in 1..Len(members) |->
            IF members[k][1] = key THEN <<key, value>> ELSE members[k]]
    ELSE Append(members, <<key, value>>)

RECURSIVE ScanOnce(_, _, _)
RECURSIVE ScanItems(_, _, _, _)
RECURSIVE ScanMembers(_, _, _, _)

\* JSONArray after the first value position
ScanItems(s, i, depth, items) ==
    LET v == ScanOnce(s, i, depth) IN
    IF ~v.ok THEN v
    ELSE LET k == SkipWhitespace(s, v.next) IN
         IF k > Len(s) THEN Failed("JSONDecodeError")
         ELSE IF s[k] = "]" THEN Parsed(JArr(Append(items, v.value)), k + 1)
         ELSE IF s[k] = ","
         THEN ScanItems(s, SkipWhitespace(s, k + 1), depth, Append(items, v.value))
         ELSE Failed("JSONDecodeError")

\* JSONObject at the opening quote of a property name
ScanMembers(s, i, depth, members) ==
    IF i > Len(s) \/ s[i] # Quote THEN Failed("JSONDecodeError")
    ELSE LET key == ScanString(s, i + 1, <<>>) IN
         IF ~key.ok THEN key
         ELSE LET c == SkipWhitespace(s, key.next) IN
              IF c > Len(s) \/ s[c] # ":" THEN Failed("JSONDecodeError")
              ELSE LET v == ScanOnce(s, SkipWhitespace(s, c + 1), depth) IN
                   IF ~v.ok THEN v
                   ELSE LET k == SkipWhitespace(s, v.next)
                            put == ObjPut(members, key.value[2], v.value)
                        IN IF k > Len(s) THEN Failed("JSONDecodeError")
                           ELSE IF s[k] = "}" THEN Parsed(JObj(put), k + 1)
                           ELSE IF s[k] = ","
                           THEN ScanMembers(s, SkipWhitespace(s, k + 1), depth, put)
                           ELSE Failed("JSONDecodeError")

\* scan_once: the value that starts at position i, inside so many arrays and objects
ScanOnce(s, i, depth) ==
    IF i > Len(s) THEN Failed("JSONDecodeError")
    ELSE IF s[i] = Quote THEN ScanString(s, i + 1, <<>>)
    ELSE IF s[i] \in {"[", "{"}
    THEN (IF depth + 1 > RecursionLimit THEN Failed("RecursionError")
          ELSE LET j == SkipWhitespace(s, i + 1) IN
               IF j > Len(s) THEN Failed("JSONDecodeError")
               ELSE IF s[i] = "["
               THEN (IF s[j] = "]" THEN Parsed(JArr(<<>>), j + 1)
                     ELSE ScanItems(s, j, depth + 1, <<>>))
               ELSE (IF s[j] = "}" THEN Parsed(JObj(<<>>), j + 1)
                     ELSE ScanMembers(s, j, depth + 1, <<>>)))
    ELSE IF s[i] \in Digits THEN ScanNumber(s, i)
    ELSE IF StartsWith(From(s, i), <<"n", "u", "l", "l">>)
    THEN Parsed(JLit(<<"n", "u", "l", "l">>), i + 4)
    ELSE IF StartsWith(From(s, i), <<"t", "r", "u", "e">>)
    THEN Parsed(JLit(<<"t", "r", "u", "e">>), i + 4)
    ELSE IF StartsWith(From(s, i), <<"f", "a", "l", "s", "e">>)
    THEN Parsed(JLit(<<"f", "a", "l", "s", "e">>), i + 5)
    ELSE Failed("JSONDecodeError")

\* json.loads: one value with whitespace around it and nothing else
JsonLoads(s) ==
    LET v == ScanOnce(s, SkipWhitespace(s, 1), 0) IN
    IF ~v.ok THEN v
    ELSE IF SkipWhitespace(s, v.next) <= Len(s) THEN Failed("JSONDecodeError")
    ELSE v

\* the escape json.dumps writes for a character of a string
Escape(c) ==
    CASE c = Quote -> <<Backslash, Quote>>
      [] c = Backslash -> <<Backslash, Backslash>>
      [] c = Newline -> <<Backslash, "n">>
      [] c = "\t" -> <<Backslash, "t">>
      [] c = "\r" -> <<Backslash, "r">>
      [] OTHER -> <<c>>

RECURSIVE EscapeAll(_)
EscapeAll(chars) ==
    IF chars = <<>> THEN <<>> ELSE Escape(Head(chars)) \o EscapeAll(Tail(chars))

DumpString(chars) == <<Quote>> \o EscapeAll(chars) \o <<Quote>>

\* json.dumps with its default separators ", " and ": "
RECURSIVE JsonDumps(_)
RECURSIVE DumpItems(_)
RECURSIVE DumpMembers(_)

DumpItems(items) ==
    IF items = <<>> THEN <<>>
    ELSE JsonDumps(Head(items))
         \o (IF Len(items) > 1 THEN <<",", " ">> ELSE <<>>)
         \o DumpItems(Tail(items))

DumpMembers(members) ==
    IF members = <<>> THEN <<>>
    ELSE DumpString(Head(members)[1]) \o <<":", " ">> \o JsonDumps(Head(members)[2])
         \o (IF Len(members) > 1 THEN <<",", " ">> ELSE <<>>)
         \o DumpMembers(Tail(members))

JsonDumps(v) ==
    CASE v[1] = "num" -> v[2]
      [] v[1] = "str" -> DumpString(v[2])
      [] v[1] = "lit" -> v[2]
      [] v[1] = "arr" -> <<"[">> \o DumpItems(v[2]) \o <<"]">>
      [] v[1] = "obj" -> <<"{">> \o DumpMembers(v[2]) \o <<"}">>

----------------------------------------------------------------------------
(* _fix_common_json_issues: the substitutions, each over the whole text *)

\* the first position of the run of whitespace that ends before position j
WhitespaceRunBefore(s, j) ==
    LET stops == {k \in 1..(j - 1) : s[k] \notin Whitespace}
    IN IF stops = {} THEN 1 ELSE (CHOOSE k \in stops : \A m \in stops : k >= m) + 1

\* the substitution for line comments (MULTILINE): from "//", with the whitespace
\* before it, to the end of the line
RECURSIVE RemoveLineComments(_)
RemoveLineComments(s) ==
    LET slashes == FindFrom(s, <<"/", "/">>, 1) IN
    IF slashes = 0 THEN s
    ELSE LET eol == FindFrom(s, <<Newline>>, slashes + 2)
         IN Upto(s, WhitespaceRunBefore(s, slashes) - 1)
            \o (IF eol = 0 THEN <<>> ELSE RemoveLineComments(From(s, eol)))

\* the substitution for block comments (DOTALL): from the first slash-star to the
\* first star-slash after it
RECURSIVE RemoveBlockComments(_)
RemoveBlockComments(s) ==
    LET open == FindFrom(s, <<"/", "*">>, 1)
        close == IF open = 0 THEN 0 ELSE FindFrom(s, <<"*", "/">>, open + 2)
    IN IF close = 0 THEN s
       ELSE Upto(s, open - 1) \o RemoveBlockComments(From(s, close + 2))

\* the substitution for single quotes: apostrophes become quotes, two by two
RECURSIVE FixSingleQuotes(_)
FixSingleQuotes(s) ==
    LET first == FindFrom(s, <<Apostrophe>>, 1)
        second == IF first = 0 THEN 0 ELSE FindFrom(s, <<Apostrophe>>, first + 1)
    IN IF second = 0 THEN s
       ELSE Upto(s, first - 1) \o <<Quote>> \o SubSeq(s, first + 1, second - 1)
            \o <<Quote>> \o FixSingleQuotes(From(s, second + 1))

\* the substitution for trailing commas: a comma goes when a closing bracket or
\* brace follows it, whitespace apart
FixTrailingCommas(s) ==
    SelectSeq([k \in 1..Len(s) |-> <<s[k], k>>],
              LAMBDA ck : ~(/\ ck[1] = ","
                            /\ SkipWhitespace(s, ck[2] + 1) <= Len(s)
                            /\ s[SkipWhitespace(s, ck[2] + 1)] \in {"}", "]"}))

Chars(pairs) == [k \in 1..Len(pairs) |-> pairs[k][1]]

\* the substitution for missing commas: two quotes with nothing but whitespace
\* and a line break between them get a comma
RECURSIVE FixMissingCommas(_, _)
FixMissingCommas(s, i) ==
    IF i > Len(s) THEN <<>>
    ELSE LET j == SkipWhitespace(s, i + 1) IN
         IF /\ s[i] = Quote
            /\ j <= Len(s) /\ s[j] = Quote
            /\ Newline \in Range(SubSeq(s, i + 1, j - 1))
         THEN <<Quote, ",", Newline, " ", " ", " ", " ", Quote>>
              \o FixMissingCommas(s, j + 1)
         ELSE <<s[i]>> \o FixMissingCommas(s, i + 1)

\* the last position of the run of word characters that starts at position i
WordRun(s, i) ==
    LET stops == {k \in i..Len(s) : s[k] \notin WordChars}
    IN IF stops = {} THEN Len(s) ELSE (CHOOSE k \in stops : \A j \in stops : k <= j) - 1

\* the substitution for unquoted keys: every word that a colon follows is quoted
RECURSIVE FixUnquotedKeys(_, _)
FixUnquotedKeys(s, i) ==
    IF i > Len(s) THEN <<>>
    ELSE IF s[i] \in WordChars
    THEN LET last == WordRun(s, i) IN
         IF last < Len(s) /\ s[last + 1] = ":"
         THEN <<Quote>> \o SubSeq(s, i, last) \o <<Quote, ":">>
              \o FixUnquotedKeys(s, last + 2)
         ELSE SubSeq(s, i, last) \o FixUnquotedKeys(s, last + 1)
    ELSE <<s[i]>> \o FixUnquotedKeys(s, i + 1)

\* the substitution that removes control characters
RemoveControlCharacters(s) == SelectSeq(s, LAMBDA c : c \notin {Newline, "\t", "\r"})

\* the repair as it would be without the rule for trailing commas
FixCommonJsonIssuesNoCommaRule(json_str) ==
    LET uncommented == RemoveBlockComments(RemoveLineComments(json_str))
        requoted == FixSingleQuotes(uncommented)
        commaed == FixMissingCommas(requoted, 1)
        keyed == FixUnquotedKeys(commaed, 1)
    IN RemoveControlCharacters(keyed)

\* GardenPlanService._fix_common_json_issues
FixCommonJsonIssues(json_str) ==
    LET uncommented == RemoveBlockComments(RemoveLineComments(json_str))
        requoted == FixSingleQuotes(uncommented)
        uncommaed == Chars(FixTrailingCommas(requoted))
        commaed == FixMissingCommas(uncommaed, 1)
        keyed == FixUnquotedKeys(commaed, 1)
    IN RemoveControlCharacters(keyed)

----------------------------------------------------------------------------
(* The two extractors *)

\* response.strip(), the prefixes and the suffixes of _extract_and_clean_json
CleanObject(response) ==
    RemoveSuffixes(RemovePrefixes(TextStrip(response), prefixes_to_remove),
                   suffixes_to_remove)

\* response.strip(), the prefixes and the two fence patterns of
\* _extract_and_clean_json_universal
CleanUniversal(response) ==
    LET cleaned == RemovePrefixes(TextStrip(response), prefixes_to_remove_universal)
    IN RemoveFenceClose(RemoveFenceOpen(cleaned, 1), 1)

\* cleaned[start_idx:end_idx + 1] between the first "{" and the last "}" of
\* _extract_and_clean_json
ObjectBoundaries(cleaned) ==
    LET start_idx == Find(cleaned, "{")
        end_idx == RFind(cleaned, "}")
    IN IF start_idx = 0 \/ end_idx = 0 \/ start_idx >= end_idx THEN NoString
       ELSE SomeString(SubSeq(cleaned, start_idx, end_idx))

\* the extractor the assembler uses for a section
Extractors == {"universal", "object"}

NewExtraction(fn, response) ==
    [pc |-> "locate", fn |-> fn, response |-> response, cleaned |-> <<>>,
     json_str |-> <<>>, repaired |-> FALSE, data |-> <<>>, outcome |-> "none"]

\* the extractor returns None, returns data, or lets an exception through
ReturnNone(e) == [e EXCEPT !.pc = "done", !.outcome = "None"]
ReturnData(e, data) == [e EXCEPT !.pc = "done", !.outcome = "data", !.data = data]
RaiseFrom(e, error) == [e EXCEPT !.pc = "done", !.outcome = error]

\* from the call to the cleaned text: the return of None for an empty response, then the
\* removal of prefixes, suffixes and fences
Cleaned(fn, response) ==
    IF response = <<>> THEN ReturnNone(NewExtraction(fn, response))
    ELSE [NewExtraction(fn, response) EXCEPT
            !.cleaned = IF fn = "universal" THEN CleanUniversal(response)
                        ELSE CleanObject(response)]

\* the part of the cleaned text that is handed to json.loads
Located(e) ==
    LET json_str == IF e.fn = "universal" THEN ExtractCompleteJson(e.cleaned)
                    ELSE ObjectBoundaries(e.cleaned)
    IN IF ~json_str.found THEN ReturnNone(e)
       ELSE [e EXCEPT !.pc = "parse", !.json_str = json_str.text]

\* try: data = json.loads(json_str); except json.JSONDecodeError: ...
Loaded(e) ==
    LET data == JsonLoads(e.json_str) IN
    IF data.ok THEN ReturnData(e, data.value)
    ELSE IF data.error = "JSONDecodeError" THEN [e EXCEPT !.pc = "repair"]
    ELSE RaiseFrom(e, data.error)

\* the handler: _fix_common_json_issues and the second json.loads
Repaired(e) ==
    LET data == JsonLoads(FixCommonJsonIssues(e.json_str))
        fixed == [e EXCEPT !.repaired = TRUE]
    IN IF data.ok THEN ReturnData(fixed, data.value)
       ELSE IF data.error = "JSONDecodeError" THEN ReturnNone(fixed)
       ELSE RaiseFrom(fixed, data.error)


----------------------------------------------------------------------------
(* The extractors as the assembler calls them, on the responses of the model *)

\* self._extract_and_clean_json_universal(response) or
\* self._extract_and_clean_json(response) is called
ExtractorCall(fn, response) ==
    /\ ext.pc = "idle"
    /\ ext' = Cleaned(fn, response)
    /\ UNCHANGED <<cacheVars, db, now, dbManager, dbFaults, llm, turn, latchVars, procs,
                   histVars, plan>>

\* the boundaries of the JSON are looked for in the cleaned text
ExtractorLocate ==
    /\ ext.pc = "locate"
    /\ ext' = Located(ext)
    /\ UNCHANGED <<cacheVars, db, now, dbManager, dbFaults, llm, turn, latchVars, procs,
                   histVars, plan>>

\* json.loads(json_str)
ExtractorParse ==
    /\ ext.pc = "parse"
    /\ ext' = Loaded(ext)
    /\ UNCHANGED <<cacheVars, db, now, dbManager, dbFaults, llm, turn, latchVars, procs,
                   histVars, plan>>

\* the except clause: repair, and json.loads once more
ExtractorRepair ==
    /\ ext.pc = "repair"
    /\ ext' = Repaired(ext)
    /\ UNCHANGED <<cacheVars, db, now, dbManager, dbFaults, llm, turn, latchVars, procs,
                   histVars, plan>>

\* the caller has taken the result, or the exception
ExtractorReturn ==
    /\ ext.pc = "done"
    /\ ext' = NoExtraction
    /\ UNCHANGED <<cacheVars, db, now, dbManager, dbFaults, llm, turn, latchVars, procs,
                   histVars, plan>>

\* the longest text of arbitrary characters among the responses
MaxText == 3

\* the contents of the strings in the values: a letter, a closing brace, an array
\* in brackets, a word with a colon, a quote
StringContents ==
    {<<"a">>, <<"}">>, <<"[", "1", "]">>, <<"b", ":", "c">>, <<Quote>>}

Scalars == {JNum(<<"1">>)} \cup {JStr(chars) : chars \in StringContents}

KeyA == <<"a">>
KeyB == <<"b">>

FlatArrays ==
    {JArr(<<>>)} \cup {JArr(<<x>>) : x \in Scalars}
    \cup {JArr(<<x, JNum(<<"2">>)>>) : x \in Scalars}

FlatObjects ==
    {JObj(<<>>)} \cup {JObj(<< <<KeyA, x>> >>) : x \in Scalars}
    \cup {JObj(<< <<KeyA, x>>, <<KeyB, JNum(<<"2">>)>> >>) : x \in Scalars}

\* objects that contain arrays, arrays of objects, objects in objects
NestedValues ==
    {JObj(<< <<KeyA, x>> >>) : x \in FlatArrays \cup FlatObjects}
    \cup {JArr(<<x>>) : x \in FlatObjects}

\* the structured values a generator is asked for
StructuredValues == FlatArrays \cup FlatObjects \cup NestedValues

\* a serialized value with a comma before its last closing bracket
WithTrailingComma(json) ==
    Upto(json, Len(json) - 1) \o <<",">> \o From(json, Len(json))

\* the values that are also sent with text around them
WrappedValues ==
    {JArr(<<JNum(<<"1">>)>>), JObj(<< <<KeyA, JNum(<<"1">>)>> >>),
     JObj(<< <<KeyA, JStr(<<"}">>)>> >>)}

\* every prefix the extractors know, as written, in lower and in upper case
KnownPrefixes ==
    UNION {{p, TextLower(p), TextUpper(p)} :
              p \in Range(prefixes_to_remove) \cup Range(prefixes_to_remove_universal)}

\* what follows the JSON: nothing, a known closing sentence, a closing fence
KnownSuffixes == {<<>>} \cup {<<" ">> \o s : s \in Range(suffixes_to_remove)}
                 \cup {<<Newline>> \o Backticks}

\* text after the JSON that holds brackets of its own
TrailingBlobs ==
    {<<" ", "[", "2", "]">>, <<" ", "{", Quote, "b", Quote, ":", " ", "2", "}">>}

\* all texts of at most so many characters over brackets, quote, letter and comma
RECURSIVE TextsUpTo(_)
TextsUpTo(n) ==
    IF n = 0 THEN {<<>>}
    ELSE LET shorter == TextsUpTo(n - 1)
         IN shorter \cup {Append(t, c) : t \in shorter,
                                         c \in {"[", "]", "{", "}", Quote, "a", ","}}

\* a text nested one level deeper than the decoder allows
RECURSIVE Nest(_)
Nest(n) == IF n = 0 THEN <<"1">> ELSE <<"[">> \o Nest(n - 1) \o <<"]">>

\* the responses of the model
Responses ==
    {JsonDumps(v) : v \in StructuredValues}
    \cup {WithTrailingComma(JsonDumps(v)) : v \in StructuredValues \ {JArr(<<>>), JObj(<<>>)}}
    \cup {p \o <<" ">> \o JsonDumps(v) \o s :
             p \in KnownPrefixes, v \in WrappedValues, s \in KnownSuffixes}
    \cup {JsonDumps(v) \o s : v \in WrappedValues, s \in TrailingBlobs}
    \cup TextsUpTo(MaxText)
    \cup {<<"n", "o", "t", " ", "j", "s", "o", "n">>,
          <<"{", "u", "n", "b", "a", "l", "a", "n", "c", "e", "d">>,
          Nest(RecursionLimit + 1)}

NextExtract ==
    \/ \E fn \in Extractors, response \in Responses : ExtractorCall(fn, response)
    \/ ExtractorLocate
    \/ ExtractorParse
    \/ ExtractorRepair
    \/ ExtractorReturn

SpecExtract == Init /\ [][NextExtract]_vars


----------------------------------------------------------------------------
(* Claims about the extractors *)

\* the response is the serialization of the value, followed by the text
IsSerialized(response, v, after) == response = JsonDumps(v) \o after

\* the value is one the extractor in use is meant for: the object extractor is for objects
MeantFor(fn, v) == fn = "universal" \/ v[1] = "obj"

\* C23: the extractor takes the first top-level bracketed region of the text, so that
\* brackets inside quoted strings of the value, and text or further bracketed blobs
\* after the region, do not change the extracted value: from the serialization of a
\* value, alone or followed by such a blob, the extractor returns that value.
C23_FirstRegionExtracted ==
    \A v \in StructuredValues, after \in {<<>>} \cup TrailingBlobs :
        (/\ ext.pc = "done"
         /\ IsSerialized(ext.response, v, after)
         /\ MeantFor(ext.fn, v))
        => (ext.outcome = "data" /\ ext.data = v)

\* C23: from an object whose string value holds an array in brackets, the universal
\* extractor has returned the array inside the string
C23_ArrayInsideStringReturned ==
    /\ ext.pc = "done"
    /\ ext.fn = "universal"
    /\ ext.response = JsonDumps(JObj(<< <<KeyA, JStr(<<"[", "1", "]">>)>> >>))
    /\ ext.outcome = "data"
    /\ ext.data = JArr(<<JNum(<<"1">>)>>)


\* C24: for every input text the extractor returns a parsed value or None and never
\* raises: no call ends with an exception.
C24_NeverRaises ==
    ext.pc = "done" => ext.outcome \in {"data", "None"}

\* C24: the empty text, a text without a bracket, a text with an unbalanced opening
\* bracket and a text still unparseable after the one repair all end with None
C24_FailureCases ==
    (/\ ext.pc = "done"
     /\ \/ ext.response = <<>>
        \/ Range(ext.response) \cap {"[", "{"} = {}
        \/ ext.response = <<"{", "u", "n", "b", "a", "l", "a", "n", "c", "e", "d">>
        \/ ext.repaired /\ ext.outcome # "data")
    => ext.outcome = "None"

\* C24: a text nested deeper than the decoder's recursion limit has ended the universal
\* extractor with RecursionError
C24_RecursionErrorEscapes ==
    /\ ext.pc = "done"
    /\ ext.fn = "universal"
    /\ ext.response = Nest(RecursionLimit + 1)
    /\ ext.outcome = "RecursionError"


\* C25: the extractor is a left inverse of serialization: from the serialization of any
\* structured value, object or array, also of an object that holds arrays or of nested
\* values, the universal extractor returns that value.
C25_LeftInverse ==
    \A v \in StructuredValues :
        (ext.pc = "done" /\ ext.fn = "universal" /\ ext.response = JsonDumps(v))
        => (ext.outcome = "data" /\ ext.data = v)

\* C25: from the serialization of an object that holds an array of two items, the
\* universal extractor has returned the array, not the object
C25_InnerArrayReturned ==
    LET items == JArr(<<JNum(<<"1">>), JNum(<<"2">>)>>)
    IN /\ ext.pc = "done"
       /\ ext.fn = "universal"
       /\ ext.response = JsonDumps(JObj(<< <<KeyA, items>> >>))
       /\ ext.outcome = "data"
       /\ ext.data = items

\* C25 on the values that hold no array below the top: the universal extractor returns
\* them unchanged, unless a string in them holds an opening and a closing bracket
C25_LeftInverseWithoutInnerArrays ==
    \A v \in (FlatArrays \cup FlatObjects
              \cup {JObj(<< <<KeyA, x>> >>) : x \in FlatObjects}) :
        (/\ ext.pc = "done" /\ ext.fn = "universal" /\ ext.response = JsonDumps(v)
         /\ (v[1] = "arr" \/ ~Contains(ext.response, <<"[", "1", "]">>)))
        => (ext.outcome = "data" /\ ext.data = v)


\* the response is the serialization of the value with a comma put before its last
\* closing bracket, and nothing else wrong
HasOnlyTrailingComma(response, v) ==
    /\ v \notin {JArr(<<>>), JObj(<<>>)}
    /\ response = WithTrailingComma(JsonDumps(v))

\* C26: a region whose only defect is a trailing comma before a closing brace or bracket
\* fails the first parse, is repaired, and parses at the one retry to the value it
\* would have without the comma.
C26_TrailingCommaRepaired ==
    \A v \in FlatArrays \cup FlatObjects :
        (/\ ext.pc = "done"
         /\ HasOnlyTrailingComma(ext.response, v)
         /\ MeantFor(ext.fn, v))
        => (ext.repaired /\ ext.outcome = "data" /\ ext.data = v)

\* C26: the repair is applied only after a failed parse, and the parse is retried once:
\* a call that has repaired ends at that step, and a call ends unrepaired only with the
\* result of the first parse or without a region
C26_RepairOnceAfterFailure ==
    [][/\ (ext.pc = "repair" => ~ext.repaired /\ ~JsonLoads(ext.json_str).ok)
       /\ (ext'.repaired /\ ~ext.repaired => ext.pc = "repair" /\ ext'.pc = "done")]_vars

\* C26: the object with a trailing comma of the specification's example shape has been
\* repaired and returned
C26_ExampleRepaired ==
    LET v == JObj(<< <<KeyA, JNum(<<"1">>)>>, <<KeyB, JNum(<<"2">>)>> >>)
    IN /\ ext.pc = "done"
       /\ ext.response = WithTrailingComma(JsonDumps(v))
       /\ ext.repaired
       /\ ext.outcome = "data"
       /\ ext.data = v

\* C26: an object whose string value holds a colon, with a trailing comma, has been
\* repaired into a text that does not parse
C26_ColonInStringNotRepaired ==
    /\ ext.pc = "done"
    /\ ext.response = WithTrailingComma(JsonDumps(JObj(<< <<KeyA, JStr(<<"b", ":", "c">>)>> >>)))
    /\ ext.repaired
    /\ ext.outcome = "None"


\* the prefixes and the closing texts that the extractor in use knows: the universal
\* extractor has no list of suffixes, only the pattern of the closing fence
KnownPrefixesOf(fn) ==
    LET listed == IF fn = "universal" THEN prefixes_to_remove_universal
                  ELSE prefixes_to_remove
    IN UNION {{p, TextLower(p), TextUpper(p)} : p \in Range(listed)}

----------------------------------------------------------------------------
(* Claims about the default sections *)

\* C28: when schedule generation fails, the plan goes on with default schedules: once
\* the schedules call has been made there is exactly one schedule per resolved plant,
\* in the order of the resolved plants, generated or default, and the request has not
\* ended with the error of the default schedules.
C28_DefaultSchedulesPerPlant ==
    (plan.calls # <<>> /\ plan.calls[1] = "schedules")
    => (/\ plan.error # "AttributeError"
        /\ Len(plan.planting_schedules) = Len(plan.plant_information)
        /\ \A j \in 1..Len(plan.planting_schedules) :
              /\ plan.planting_schedules[j].plant_name = plan.plant_information[j].name
              /\ plan.planting_schedules[j].by \in {"llm", "default"})

\* C28: the schedules response was text without JSON for two resolved plants, and the
\* request has ended with AttributeError and no schedule at all
C28_NoDefaultSchedule ==
    /\ plan.pc = "failed"
    /\ plan.error = "AttributeError"
    /\ plan.calls = <<"schedules">>
    /\ plan.answered
    /\ ~plan.misshapen
    /\ Len(plan.plant_information) = 2
    /\ plan.planting_schedules = <<>>


\* C29: on every failure path of instruction generation the default entry of a plant is
\* the templated one, built for that plant and interpolating its sun and water
\* requirement, spacing, depth and days to harvest; no entry of the plan is the basic
\* default of one sentence per list.
C29_DefaultsAreTemplated ==
    \A j \in 1..Len(plan.growing_instructions) :
        LET entry == plan.growing_instructions[j] IN
        /\ entry.by \in {"llm", "enhanced", "enhanced_default"}
        /\ entry.by = "enhanced_default"
           => /\ entry.plant_name = plan.plant_information[j].name
              /\ entry.subject = plan.plant_information[j].name
              /\ {"sun_requirements", "water_requirements", "spacing_inches",
                  "planting_depth_inches", "days_to_harvest"}
                     \subseteq TemplateAttributes(entry.by)

\* C29: a plan has been returned in which the instructions of both plants are the
\* templated default
C29_TemplatedDefaultsReturned ==
    /\ plan.pc = "done"
    /\ Len(plan.growing_instructions) = 2
    /\ \A j \in 1..2 : plan.growing_instructions[j].by = "enhanced_default"


\* C30: when tips generation fails, the tips of the returned plan are the default list,
\* whose sentences are parameterized by the zone of the location and by the number of
\* resolved plants.
C30_DefaultTipsParameterized ==
    (plan.pc = "done" /\ plan.general_tips.by # "llm")
    => {"location.usda_zone", "len(plants)"} \subseteq plan.general_tips.interpolates

\* C30, the part about the zone: the tips of a returned plan that the generator did not
\* write are a list of strings that interpolates the zone
C30_DefaultTipsUseZone ==
    (plan.pc = "done" /\ plan.general_tips.by # "llm")
    => (/\ plan.general_tips.by = "default"
        /\ plan.general_tips.items = "str"
        /\ "location.usda_zone" \in plan.general_tips.interpolates)

\* C30: a plan has been returned whose tips are the list at the end of
\* _generate_general_tips, in which the number of plants does not occur
C30_TipsWithoutPlantCount ==
    /\ plan.pc = "done"
    /\ plan.calls[Len(plan.calls)] = "tips"
    /\ plan.general_tips.by = "default"
    /\ "len(plants)" \notin plan.general_tips.interpolates
    /\ plan.general_tips # CreateDefaultTips


----------------------------------------------------------------------------
(* Claims about the names, the latch and the frame of the resolver *)

\* C31: every record a finished get_plant_info returned, from whichever tier, carries a
\* name that equals the requested name after trimming and case folding, and every key
\* of the cache holds a record whose normalized name is that key.
C31_RecordsAnswerTheName ==
    /\ \A p \in ProcIds :
          (FinishedLookup(procs[p]) /\ procs[p].tasks[1].ret # None)
          => Key(procs[p].tasks[1].ret.name) = Key(procs[p].tasks[1].name)
    /\ \A k \in DOMAIN cache : Key(cache[k].name) = k

\* C31: a lookup of "C" was answered by the partial match of the table with the record
\* of "CK", which is now in the cache under the key of "C"
C31_OtherPlantUnderKey ==
    \E p \in ProcIds :
        /\ FinishedLookup(procs[p])
        /\ procs[p].tasks[1].name = NameC
        /\ "db_hit_partial" \in Events(procs[p])
        /\ procs[p].tasks[1].ret.name = NameCK
        /\ Key(NameC) \in DOMAIN cache
        /\ cache[Key(NameC)].name = NameCK

\* C31: the generator answered the prompt for "XL" with a record named "L", which was
\* returned and is in the cache under the key of "XL"
C31_RenamedRecordUnderKey ==
    \E p \in ProcIds :
        /\ FinishedLookup(procs[p])
        /\ procs[p].tasks[1].name = NameXL
        /\ "llm_ok" \in Events(procs[p])
        /\ procs[p].tasks[1].ret.name = NameL
        /\ Key(NameXL) \in DOMAIN cache
        /\ cache[Key(NameXL)].name = NameL


\* the events of the JSON fallback and of the Store in the log of a call
StaticEvents == {"static", "static_hit", "static_miss"}

\* C32: the availability of the Store is decided at the first use, from the database
\* manager as it is then, and is latched: no step changes a decided value but
\* refresh_database_status, which decides again from the manager as it is now, so that
\* after init_database and a refresh the value is True; and a call that found the value
\* True and missed the cache went to the Store, never to the JSON fallback.
C32_AvailabilityLatched ==
    [][/\ (dbAvailable = "None" /\ dbAvailable' # "None")
             => dbAvailable' = (IF dbManager THEN "True" ELSE "False")
       /\ (dbAvailable # "None" /\ dbAvailable' # dbAvailable) => RefreshDatabaseStatus
       /\ RefreshDatabaseStatus
             => dbAvailable' = (IF dbManager THEN "True" ELSE "False")
       /\ \A p \in ProcIds :
             (Done(procs'[p]) /\ procs'[p].pre.store)
             => /\ Events(procs'[p]) \cap StaticEvents = {}
                /\ Events(procs'[p]) \cap {"cache_miss", "cache_expired"} # {}
                      => Events(procs'[p]) \cap StoreEvents # {}]_vars

\* C32: the call before was answered with the JSON fallback, the availability having been
\* decided before init_database; after init_database and refresh_database_status the
\* lookup that has just returned went to the Store
C32_StoreUsedAfterRefresh ==
    \E p \in ProcIds :
        /\ prev.events \cap StaticEvents # {}
        /\ FinishedLookup(procs[p])
        /\ procs[p].pre.store
        /\ dbManager /\ dbAvailable = "True"
        /\ Events(procs[p]) \cap StoreEvents # {}
        /\ Events(procs[p]) \cap StaticEvents = {}

\* C32: the database manager is initialised, but the availability was decided before
\* and nobody refreshed: the lookup that has just returned still used the JSON fallback
C32_LatchedUnavailable ==
    \E p \in ProcIds :
        /\ FinishedLookup(procs[p])
        /\ procs[p].pre.now = now
        /\ dbManager /\ dbAvailable = "False"
        /\ Events(procs[p]) \cap StaticEvents # {}


SpecWriteBack == Started({"r1", "r2", "r3"}) /\ [][NextConc]_vars

C33_SeveralRowsReportFailure ==
    \E p \in ProcIds : \E i \in 1..Len(procs[p].tasks) :
        LET task == procs[p].tasks[i] IN
        /\ task.pc = "done"
        /\ "llm_ok" \in TaskEvents(task)
        /\ "db_error" \in TaskEvents(task)
        /\ task.hold.days # NoInt
        /\ Cardinality(ExactRows(db, Key(task.hold.name))) > 1
        /\ \A r \in ExactRows(db, Key(task.hold.name)) : r.usage = 1


\* the step in which a get_plant_info of the caller returns None after the generator
\* failed
GenerationFailedReturn(p) ==
    /\ procs[p].op = "gpi" /\ ~Done(procs[p])
    /\ procs'[p].op = "gpi" /\ Done(procs'[p])
    /\ procs'[p].tasks[1].ret = None
    /\ Events(procs'[p]) \cap LlmFailureEvents # {}

\* C34: when generation for a name fails in get_plant_info, the call leaves the cache and
\* the Store unchanged: at its return the entries and the timestamps of the cache and
\* the rows of the table are what the call found.
C34_FailureLeavesCacheAndStore ==
    [][\A p \in ProcIds :
          GenerationFailedReturn(p)
          => /\ cache' = procs[p].pre.cache
             /\ timestamps' = procs[p].pre.timestamps
             /\ db' = procs[p].pre.db]_vars

\* C34 as the code keeps it: the failed call adds nothing - no cache entry under the
\* requested key or any other, no row - and changes no entry it keeps; what it may do is
\* drop the expired entry it found under the requested key.
C34_FailureAddsNothing ==
    [][\A p \in ProcIds :
          GenerationFailedReturn(p)
          => LET pre == procs[p].pre
                 key == Key(procs[p].tasks[1].name)
             IN /\ db' = pre.db
                /\ key \notin DOMAIN cache'
                /\ DOMAIN cache' = DOMAIN pre.cache \ {key}
                /\ DOMAIN timestamps' = DOMAIN cache'
                /\ \A k \in DOMAIN cache' : /\ cache'[k] = pre.cache[k]
                                            /\ timestamps'[k] = pre.timestamps[k]
                /\ key \in DOMAIN pre.cache
                      => pre.now - pre.timestamps[key] > CacheDuration]_vars

\* C34: a lookup found an expired entry under its key, missed the Store or the static
\* table, failed to generate and returned None: the entry is gone from the cache
C34_ExpiredEntryDropped ==
    \E p \in ProcIds :
        /\ FinishedLookup(procs[p])
        /\ procs[p].tasks[1].ret = None
        /\ Events(procs[p]) \cap LlmFailureEvents # {}
        /\ "cache_expired" \in Events(procs[p])
        /\ Key(procs[p].tasks[1].name) \in DOMAIN procs[p].pre.cache
        /\ Key(procs[p].tasks[1].name) \notin DOMAIN cache
        /\ db = procs[p].pre.db

\* C34: a lookup of a name with no cache entry failed to generate and returned None, the
\* cache and the table being as it found them
C34_NothingAdded ==
    \E p \in ProcIds :
        /\ FinishedLookup(procs[p])
        /\ procs[p].tasks[1].ret = None
        /\ Events(procs[p]) \cap LlmFailureEvents # {}
        /\ "cache_miss" \in Events(procs[p])
        /\ procs[p].pre.cache # EmptyMap
        /\ cache = procs[p].pre.cache
        /\ db = procs[p].pre.db


\* the names of the coroutines a call of get_multiple_plants gathered
TaskNames(proc) == [j \in 1..Len(proc.tasks) |-> proc.tasks[j].name]

C35_StaticLookupAnswered ==
    \E p \in ProcIds :
        LET proc == procs[p]
        IN /\ FinishedLookup(proc) /\ ~proc.pre.store
           /\ ~FreshIn(proc.pre, Key(proc.names[1]))
           /\ proc.tasks[1].log = <<"cache_miss", "static_hit">>
           /\ proc.tasks[1].ret = static_plants[Key(proc.names[1])]


----------------------------------------------------------------------------
(* Claim about the length of the answer to the instructions prompt, under SpecTurn *)

\* the answer is an object with all six lists, named as the plant, in whose lists
\* enough of the detail indicators occur
ValidAndDetailed(response, plant) ==
    /\ response # None
    /\ response.content.kind = "instruction_data"
    /\ response.content.has = InstructionCategories
    /\ response.content.plant_name = plant.name
    /\ ValidateInstructionQuality(response.content)

\* C36: the entry a turn appends is taken from the answer (as it is, or enhanced) only
\* if the stripped length of the answer exceeds 200; an answer of stripped length 200 or
\* less, whatever it holds, is discarded and the entry is the enhanced default built
\* from the attributes of the plant of the turn.
C36_ShortResponseDiscarded ==
    turn.pc = "appended" =>
        /\ turn.entry.by \in {"llm", "enhanced"}
           => /\ turn.response # None
              /\ ResponseLen(ResponseStrip(turn.response)) > MinResponseLength
        /\ (turn.response # None
            /\ ResponseLen(ResponseStrip(turn.response)) <= MinResponseLength)
           => /\ turn.entry = CreateEnhancedDefaultInstructions(turn.plant)
              /\ turn.entry.subject = turn.plant.name
              /\ {"sun_requirements", "water_requirements", "spacing_inches",
                  "planting_depth_inches", "days_to_harvest"}
                     \subseteq TemplateAttributes(turn.entry.by)

\* a valid and detailed object of exactly 200 characters, blanks around it, has been
\* answered with the enhanced default
C36_ValidAnswerOfThresholdLengthDiscarded ==
    /\ turn.pc = "appended"
    /\ ValidAndDetailed(turn.response, turn.plant)
    /\ turn.response.body = MinResponseLength
    /\ ResponseLen(turn.response) > MinResponseLength
    /\ turn.entry.by = "enhanced_default"

\* the same object, one character longer, has been used
C36_LongerAnswerUsed ==
    /\ turn.pc = "appended"
    /\ ValidAndDetailed(turn.response, turn.plant)
    /\ turn.response.body = MinResponseLength + 1
    /\ turn.entry.by = "llm"

====
